---- MODULE Spec2Model ----
(***************************************************************************)
(* Device-identity resolution of the tunnel tracking system:               *)
(*   SmartMACTracker      (src/scripts/smart_mac_tracking.py)              *)
(*   MobilePhoneDetector  (src/scripts/mac_filtering.py)                   *)
(*   RajantMacMonitor     (src/rajant_integration_updated.py)              *)
(*                                                                         *)
(* Python values are modelled as follows.                                  *)
(*   str            a TLA+ string; characters are read with SubSeq         *)
(*   Optional[str]  <<>> for None, <<s>> for the string s                  *)
(*   float          an integer count of hundredths (0.95 is 95), except    *)
(*                  where a definition says otherwise                      *)
(*   datetime.now() the value of the variable clock, which every recorded  *)
(*                  sample advances by one                                 *)
(***************************************************************************)
EXTENDS Integers, Sequences, FiniteSets, TLC

VARIABLES
  known_users,     \* SmartMACTracker.known_users: mac -> registration
  mac_history,     \* SmartMACTracker.mac_history: mac -> list of samples
  mobile_ouis,     \* MobilePhoneDetector.mobile_ouis: OUI -> label
  infrastructure_ouis,  \* MobilePhoneDetector.infrastructure_ouis: OUI -> label
  device_history,  \* MobilePhoneDetector.device_history: mac -> DeviceInfo
  clock,           \* datetime.now()
  ret,             \* what the last call returned (or that it raised)
  recorded,        \* history variable: every sample ever appended by
                   \* create_device_fingerprint, per mac, in arrival order
  det_recorded,    \* history variable: every signal ever passed to
                   \* update_device_history, per mac, in arrival order
  calls,           \* the track_device calls in flight, one per thread: where
                   \* the call stands and its local values
  last_seen_macs,  \* RajantMacMonitor.last_seen_macs: mac -> node id
  detections       \* history variable: every _process_mac_detection call, in
                   \* order, with whether it sent a report and whether the
                   \* backend accepted it

vars == <<known_users, mac_history, mobile_ouis, infrastructure_ouis, device_history,
         clock, ret, recorded, det_recorded, calls, last_seen_macs, detections>>

-----------------------------------------------------------------------------
(* Python built-ins on str, list and dict                                  *)

Min(a, b) == IF a <= b THEN a ELSE b
Max(a, b) == IF a >= b THEN a ELSE b
Abs(a) == IF a < 0 THEN 0 - a ELSE a

None == <<>>
Some(v) == <<v>>

\* s[i] with Python's 0-based index; callers check i < len(s) first.
CharAt(s, i) == SubSeq(s, i + 1, i + 1)

\* s[:n]
Prefix(s, n) == SubSeq(s, 1, Min(n, Len(s)))

\* xs[-n:]
LastN(xs, n) == SubSeq(xs, Max(1, Len(xs) - n + 1), Len(xs))

\* s.startswith(p)
StartsWith(s, p) == Len(s) >= Len(p) /\ SubSeq(s, 1, Len(p)) = p

\* One character of str.upper(); the inputs use ASCII only.
UpperChar(c) ==
  CASE c = "a" -> "A" [] c = "b" -> "B" [] c = "c" -> "C" [] c = "d" -> "D"
    [] c = "e" -> "E" [] c = "f" -> "F" [] c = "g" -> "G" [] c = "h" -> "H"
    [] c = "i" -> "I" [] c = "j" -> "J" [] c = "k" -> "K" [] c = "l" -> "L"
    [] c = "m" -> "M" [] c = "n" -> "N" [] c = "o" -> "O" [] c = "p" -> "P"
    [] c = "q" -> "Q" [] c = "r" -> "R" [] c = "s" -> "S" [] c = "t" -> "T"
    [] c = "u" -> "U" [] c = "v" -> "V" [] c = "w" -> "W" [] c = "x" -> "X"
    [] c = "y" -> "Y" [] c = "z" -> "Z" [] OTHER -> c

\* s.upper()
RECURSIVE Upper(_)
Upper(s) ==
  IF Len(s) = 0 THEN ""
  ELSE UpperChar(SubSeq(s, 1, 1)) \o Upper(SubSeq(s, 2, Len(s)))

\* s.replace(ch, '') for a one-character ch
RECURSIVE Remove(_, _)
Remove(s, ch) ==
  IF Len(s) = 0 THEN ""
  ELSE (IF SubSeq(s, 1, 1) = ch THEN "" ELSE SubSeq(s, 1, 1))
         \o Remove(SubSeq(s, 2, Len(s)), ch)

\* s.split(sep)[0]: the text before the first sep, all of s when it has none
RECURSIVE SplitFirst(_, _)
SplitFirst(s, sep) ==
  IF Len(s) = 0 \/ SubSeq(s, 1, 1) = sep THEN ""
  ELSE SubSeq(s, 1, 1) \o SplitFirst(SubSeq(s, 2, Len(s)), sep)

HexDigits == {"0", "1", "2", "3", "4", "5", "6", "7", "8", "9",
              "A", "B", "C", "D", "E", "F", "a", "b", "c", "d", "e", "f"}

\* The hex digits whose value has bit 0x2 set: 2 3 6 7 A B E F.
Bit2Digits == {"2", "3", "6", "7", "A", "B", "E", "F", "a", "b", "e", "f"}

RECURSIVE AllHex(_)
AllHex(s) ==
  Len(s) = 0 \/ (SubSeq(s, 1, 1) \in HexDigits /\ AllHex(SubSeq(s, 2, Len(s))))

\* int(s, 16) raises ValueError: s is empty or holds a character that is no hex
\* digit. (The inputs hold no sign, blank, underscore or 0x prefix, which int()
\* would also accept.)
IntRaises(s) == Len(s) = 0 \/ ~AllHex(s)

\* int(s, 16) & 0x2 != 0, for s that int() accepts: bit 0x2 of the value is bit
\* 0x2 of its last digit.
IntHasBit2(s) == SubSeq(s, Len(s), Len(s)) \in Bit2Digits

\* A dict literal is the sequence of its key/value pairs; the value it gives a
\* key is that of the last pair with that key.
DictGet(pairs, k) ==
  pairs[CHOOSE i \in 1..Len(pairs) :
          /\ pairs[i][1] = k
          /\ \A j \in (i + 1)..Len(pairs) : pairs[j][1] /= k][2]

-----------------------------------------------------------------------------
(* MobilePhoneDetector: the static OUI tables                              *)

\* The dict literal of _load_mobile_ouis: its key/value pairs in source order,
\* repeated keys included.
mobile_ouis_literal ==
  <<<<"00:03:93", "Apple iPhone">>, <<"00:0A:95", "Apple iPhone">>, <<"00:17:F2", "Apple iPhone">>,
    <<"00:1B:63", "Apple iPhone">>, <<"00:1E:C2", "Apple iPhone">>, <<"00:23:12", "Apple iPhone">>,
    <<"00:25:BC", "Apple iPhone">>, <<"00:26:08", "Apple iPhone">>, <<"04:0C:CE", "Apple iPhone">>,
    <<"04:15:52", "Apple iPhone">>, <<"04:1E:64", "Apple iPhone">>, <<"04:69:F2", "Apple iPhone">>,
    <<"04:DB:56", "Apple iPhone">>, <<"04:F7:E4", "Apple iPhone">>, <<"08:00:07", "Apple iPhone">>,
    <<"0C:3E:9F", "Apple iPhone">>, <<"0C:74:C2", "Apple iPhone">>, <<"10:40:F3", "Apple iPhone">>,
    <<"14:20:5E", "Apple iPhone">>, <<"14:7D:DA", "Apple iPhone">>, <<"18:AF:8F", "Apple iPhone">>,
    <<"1C:AB:A7", "Apple iPhone">>, <<"20:A2:E4", "Apple iPhone">>, <<"24:A0:74", "Apple iPhone">>,
    <<"28:37:37", "Apple iPhone">>, <<"2C:1F:23", "Apple iPhone">>, <<"30:35:AD", "Apple iPhone">>,
    <<"30:90:AB", "Apple iPhone">>, <<"34:A3:95", "Apple iPhone">>, <<"38:B5:4D", "Apple iPhone">>,
    <<"3C:2E:FF", "Apple iPhone">>, <<"40:83:DE", "Apple iPhone">>, <<"44:4C:0C", "Apple iPhone">>,
    <<"48:74:6E", "Apple iPhone">>, <<"4C:3C:16", "Apple iPhone">>, <<"50:ED:3C", "Apple iPhone">>,
    <<"54:72:4F", "Apple iPhone">>, <<"58:55:CA", "Apple iPhone">>, <<"5C:95:AE", "Apple iPhone">>,
    <<"60:F4:45", "Apple iPhone">>, <<"64:B0:A6", "Apple iPhone">>, <<"68:AE:20", "Apple iPhone">>,
    <<"6C:72:20", "Apple iPhone">>, <<"70:1C:E7", "Apple iPhone">>, <<"74:E2:F5", "Apple iPhone">>,
    <<"78:4F:43", "Apple iPhone">>, <<"7C:6D:62", "Apple iPhone">>, <<"80:BE:05", "Apple iPhone">>,
    <<"84:38:35", "Apple iPhone">>, <<"88:66:5A", "Apple iPhone">>, <<"8C:85:90", "Apple iPhone">>,
    <<"90:72:40", "Apple iPhone">>, <<"94:E9:6A", "Apple iPhone">>, <<"98:FE:94", "Apple iPhone">>,
    <<"9C:04:EB", "Apple iPhone">>, <<"A0:99:9B", "Apple iPhone">>, <<"A4:5E:60", "Apple iPhone">>,
    <<"A8:51:AB", "Apple iPhone">>, <<"AC:87:A3", "Apple iPhone">>, <<"B0:65:BD", "Apple iPhone">>,
    <<"B4:F0:AB", "Apple iPhone">>, <<"B8:78:2E", "Apple iPhone">>, <<"BC:3B:AF", "Apple iPhone">>,
    <<"C0:9A:D0", "Apple iPhone">>, <<"C4:B3:01", "Apple iPhone">>, <<"C8:2A:14", "Apple iPhone">>,
    <<"CC:25:EF", "Apple iPhone">>, <<"D0:23:DB", "Apple iPhone">>, <<"D4:90:9C", "Apple iPhone">>,
    <<"D8:1D:72", "Apple iPhone">>, <<"DC:2B:2A", "Apple iPhone">>, <<"E0:AC:CB", "Apple iPhone">>,
    <<"E4:8B:7F", "Apple iPhone">>, <<"E8:80:2E", "Apple iPhone">>, <<"EC:35:86", "Apple iPhone">>,
    <<"F0:24:75", "Apple iPhone">>, <<"F4:F1:5A", "Apple iPhone">>, <<"F8:27:93", "Apple iPhone">>,
    <<"FC:25:3F", "Apple iPhone">>, <<"00:07:AB", "Samsung Android">>, <<"00:0E:07", "Samsung Android">>,
    <<"00:12:47", "Samsung Android">>, <<"00:15:99", "Samsung Android">>, <<"00:16:32", "Samsung Android">>,
    <<"00:17:C9", "Samsung Android">>, <<"00:1A:8A", "Samsung Android">>, <<"00:1D:25", "Samsung Android">>,
    <<"00:1E:E1", "Samsung Android">>, <<"00:21:19", "Samsung Android">>, <<"00:23:39", "Samsung Android">>,
    <<"00:26:37", "Samsung Android">>, <<"04:18:D6", "Samsung Android">>, <<"08:37:3D", "Samsung Android">>,
    <<"0C:14:20", "Samsung Android">>, <<"0C:89:10", "Samsung Android">>, <<"10:1D:C0", "Samsung Android">>,
    <<"14:7F:3C", "Samsung Android">>, <<"18:3A:2D", "Samsung Android">>, <<"1C:5A:3E", "Samsung Android">>,
    <<"20:13:E0", "Samsung Android">>, <<"24:4B:81", "Samsung Android">>, <<"28:39:26", "Samsung Android">>,
    <<"2C:44:01", "Samsung Android">>, <<"30:07:4D", "Samsung Android">>, <<"34:23:87", "Samsung Android">>,
    <<"38:AA:3C", "Samsung Android">>, <<"3C:5A:B4", "Samsung Android">>, <<"40:0E:85", "Samsung Android">>,
    <<"44:00:10", "Samsung Android">>, <<"48:5A:3F", "Samsung Android">>, <<"4C:BC:42", "Samsung Android">>,
    <<"50:CC:F8", "Samsung Android">>, <<"54:88:0E", "Samsung Android">>, <<"58:1F:AA", "Samsung Android">>,
    <<"5C:0A:5B", "Samsung Android">>, <<"60:6B:BD", "Samsung Android">>, <<"64:16:66", "Samsung Android">>,
    <<"68:EB:C5", "Samsung Android">>, <<"6C:2F:2C", "Samsung Android">>, <<"70:F9:27", "Samsung Android">>,
    <<"74:45:8A", "Samsung Android">>, <<"78:25:AD", "Samsung Android">>, <<"7C:61:66", "Samsung Android">>,
    <<"80:57:19", "Samsung Android">>, <<"84:25:3F", "Samsung Android">>, <<"88:32:9B", "Samsung Android">>,
    <<"8C:77:12", "Samsung Android">>, <<"90:18:7C", "Samsung Android">>, <<"94:35:0A", "Samsung Android">>,
    <<"98:52:3D", "Samsung Android">>, <<"9C:28:EF", "Samsung Android">>, <<"A0:21:B7", "Samsung Android">>,
    <<"A4:EB:D3", "Samsung Android">>, <<"A8:DB:03", "Samsung Android">>, <<"AC:5F:3E", "Samsung Android">>,
    <<"B0:72:BF", "Samsung Android">>, <<"B4:62:93", "Samsung Android">>, <<"B8:5E:7B", "Samsung Android">>,
    <<"BC:14:85", "Samsung Android">>, <<"C0:BD:D1", "Samsung Android">>, <<"C4:42:02", "Samsung Android">>,
    <<"C8:BA:94", "Samsung Android">>, <<"CC:07:AB", "Samsung Android">>, <<"D0:17:6A", "Samsung Android">>,
    <<"D4:87:D8", "Samsung Android">>, <<"D8:90:E8", "Samsung Android">>, <<"DC:71:96", "Samsung Android">>,
    <<"E0:91:F5", "Samsung Android">>, <<"E4:32:CB", "Samsung Android">>, <<"E8:50:8B", "Samsung Android">>,
    <<"EC:1F:72", "Samsung Android">>, <<"F0:25:B7", "Samsung Android">>, <<"F4:0F:24", "Samsung Android">>,
    <<"F8:04:2E", "Samsung Android">>, <<"FC:A6:21", "Samsung Android">>, <<"00:1A:11", "Google Pixel">>,
    <<"04:C0:6F", "Google Pixel">>, <<"5C:51:4F", "Google Pixel">>, <<"64:C5:AA", "Google Pixel">>,
    <<"8C:85:90", "Google Pixel">>, <<"AC:37:43", "Google Pixel">>, <<"B4:77:39", "Google Pixel">>,
    <<"C4:43:8F", "Google Pixel">>, <<"DC:2B:61", "Google Pixel">>, <<"F8:8F:CA", "Google Pixel">>,
    <<"00:18:82", "Huawei Android">>, <<"00:1E:10", "Huawei Android">>, <<"00:25:9E", "Huawei Android">>,
    <<"04:BD:88", "Huawei Android">>, <<"08:7A:4C", "Huawei Android">>, <<"0C:96:BF", "Huawei Android">>,
    <<"10:1F:74", "Huawei Android">>, <<"14:F6:D8", "Huawei Android">>, <<"18:4F:32", "Huawei Android">>,
    <<"1C:1D:67", "Huawei Android">>, <<"20:F3:A3", "Huawei Android">>, <<"24:09:95", "Huawei Android">>,
    <<"28:C6:8E", "Huawei Android">>, <<"2C:AB:25", "Huawei Android">>, <<"30:B4:9E", "Huawei Android">>,
    <<"34:6B:D3", "Huawei Android">>, <<"38:BC:01", "Huawei Android">>, <<"3C:8B:FE", "Huawei Android">>,
    <<"40:4D:8E", "Huawei Android">>, <<"44:6D:6C", "Huawei Android">>, <<"48:DB:50", "Huawei Android">>,
    <<"4C:54:99", "Huawei Android">>, <<"50:8F:4C", "Huawei Android">>, <<"54:25:EA", "Huawei Android">>,
    <<"58:2A:F7", "Huawei Android">>, <<"5C:C9:D3", "Huawei Android">>, <<"60:DE:44", "Huawei Android">>,
    <<"64:3E:8C", "Huawei Android">>, <<"68:13:E2", "Huawei Android">>, <<"6C:E8:73", "Huawei Android">>,
    <<"70:72:3C", "Huawei Android">>, <<"74:A7:22", "Huawei Android">>, <<"78:D6:F0", "Huawei Android">>,
    <<"7C:B2:1B", "Huawei Android">>, <<"80:38:BC", "Huawei Android">>, <<"84:A4:23", "Huawei Android">>,
    <<"88:E3:AB", "Huawei Android">>, <<"8C:34:FD", "Huawei Android">>, <<"90:67:1C", "Huawei Android">>,
    <<"94:04:9C", "Huawei Android">>, <<"98:54:1B", "Huawei Android">>, <<"9C:28:BF", "Huawei Android">>,
    <<"A0:8C:FD", "Huawei Android">>, <<"A4:50:46", "Huawei Android">>, <<"A8:1E:84", "Huawei Android">>,
    <<"AC:E2:D3", "Huawei Android">>, <<"B0:E2:35", "Huawei Android">>, <<"B4:CD:27", "Huawei Android">>,
    <<"B8:08:CF", "Huawei Android">>, <<"BC:25:E5", "Huawei Android">>, <<"C0:EE:40", "Huawei Android">>,
    <<"C4:0B:CB", "Huawei Android">>, <<"C8:14:79", "Huawei Android">>, <<"CC:B1:1A", "Huawei Android">>,
    <<"D0:7E:35", "Huawei Android">>, <<"D4:6A:6A", "Huawei Android">>, <<"D8:49:2F", "Huawei Android">>,
    <<"DC:D8:9D", "Huawei Android">>, <<"E0:19:1D", "Huawei Android">>, <<"E4:58:B8", "Huawei Android">>,
    <<"E8:CD:2D", "Huawei Android">>, <<"EC:23:3D", "Huawei Android">>, <<"F0:79:59", "Huawei Android">>,
    <<"F4:28:53", "Huawei Android">>, <<"F8:98:B9", "Huawei Android">>, <<"FC:48:EF", "Huawei Android">>,
    <<"00:90:E6", "OnePlus Android">>, <<"08:05:81", "OnePlus Android">>, <<"0C:8D:DB", "OnePlus Android">>,
    <<"10:68:3F", "OnePlus Android">>, <<"14:D1:27", "OnePlus Android">>, <<"18:4A:AE", "OnePlus Android">>,
    <<"1C:B0:94", "OnePlus Android">>, <<"20:68:9D", "OnePlus Android">>, <<"24:CF:24", "OnePlus Android">>,
    <<"28:E1:4C", "OnePlus Android">>, <<"2C:F4:32", "OnePlus Android">>, <<"30:E1:71", "OnePlus Android">>,
    <<"34:97:F6", "OnePlus Android">>, <<"38:A4:ED", "OnePlus Android">>, <<"3C:BD:3E", "OnePlus Android">>,
    <<"40:B0:76", "OnePlus Android">>, <<"44:91:60", "OnePlus Android">>, <<"48:C1:AC", "OnePlus Android">>,
    <<"4C:49:E3", "OnePlus Android">>, <<"50:8A:06", "OnePlus Android">>, <<"54:E4:3A", "OnePlus Android">>,
    <<"58:CB:52", "OnePlus Android">>, <<"5C:A6:E6", "OnePlus Android">>, <<"60:AB:14", "OnePlus Android">>,
    <<"64:BC:0C", "OnePlus Android">>, <<"68:EB:AE", "OnePlus Android">>, <<"6C:24:08", "OnePlus Android">>,
    <<"70:4A:0E", "OnePlus Android">>, <<"74:4C:A1", "OnePlus Android">>, <<"78:2B:CB", "OnePlus Android">>,
    <<"7C:1C:4E", "OnePlus Android">>, <<"80:7A:BF", "OnePlus Android">>, <<"84:C7:EA", "OnePlus Android">>,
    <<"88:83:5D", "OnePlus Android">>, <<"8C:1A:B0", "OnePlus Android">>, <<"90:E8:68", "OnePlus Android">>,
    <<"94:65:9C", "OnePlus Android">>, <<"98:22:EF", "OnePlus Android">>, <<"9C:07:A3", "OnePlus Android">>,
    <<"A0:C5:89", "OnePlus Android">>, <<"A4:34:D9", "OnePlus Android">>, <<"A8:26:D9", "OnePlus Android">>,
    <<"AC:22:0B", "OnePlus Android">>, <<"B0:A7:37", "OnePlus Android">>, <<"B4:52:7E", "OnePlus Android">>,
    <<"B8:9A:2A", "OnePlus Android">>, <<"BC:25:E5", "OnePlus Android">>, <<"C0:05:C2", "OnePlus Android">>,
    <<"C4:07:2F", "OnePlus Android">>, <<"C8:FF:77", "OnePlus Android">>, <<"CC:15:31", "OnePlus Android">>,
    <<"D0:53:49", "OnePlus Android">>, <<"D4:6E:0E", "OnePlus Android">>, <<"D8:55:A3", "OnePlus Android">>,
    <<"DC:91:A7", "OnePlus Android">>, <<"E0:B9:4D", "OnePlus Android">>, <<"E4:42:A6", "OnePlus Android">>,
    <<"E8:92:A4", "OnePlus Android">>, <<"EC:F4:BB", "OnePlus Android">>, <<"F0:27:2D", "OnePlus Android">>,
    <<"F4:0E:22", "OnePlus Android">>, <<"F8:63:3F", "OnePlus Android">>, <<"FC:05:A6", "OnePlus Android">>>>

\* The dict literal of _load_infrastructure_ouis: its pairs in source order.
infrastructure_ouis_literal ==
  <<<<"00:00:0C", "Cisco Router/Switch">>, <<"00:01:42", "Cisco Router/Switch">>, <<"00:01:43", "Cisco Router/Switch">>,
    <<"00:01:96", "Cisco Router/Switch">>, <<"00:01:97", "Cisco Router/Switch">>, <<"00:02:16", "Cisco Router/Switch">>,
    <<"00:02:17", "Cisco Router/Switch">>, <<"00:02:4A", "Cisco Router/Switch">>, <<"00:02:4B", "Cisco Router/Switch">>,
    <<"00:02:B9", "Cisco Router/Switch">>, <<"00:02:BA", "Cisco Router/Switch">>, <<"00:03:31", "Cisco Router/Switch">>,
    <<"00:03:32", "Cisco Router/Switch">>, <<"00:03:6B", "Cisco Router/Switch">>, <<"00:03:6C", "Cisco Router/Switch">>,
    <<"00:03:A0", "Cisco Router/Switch">>, <<"00:03:E3", "Cisco Router/Switch">>, <<"00:03:FD", "Cisco Router/Switch">>,
    <<"00:03:FE", "Cisco Router/Switch">>, <<"00:04:27", "Cisco Router/Switch">>, <<"00:04:28", "Cisco Router/Switch">>,
    <<"00:04:4D", "Cisco Router/Switch">>, <<"00:04:6D", "Cisco Router/Switch">>, <<"00:04:9A", "Cisco Router/Switch">>,
    <<"00:04:C0", "Cisco Router/Switch">>, <<"00:04:C1", "Cisco Router/Switch">>, <<"00:04:DD", "Cisco Router/Switch">>,
    <<"04:18:D6", "Ubiquiti UniFi AP">>, <<"18:E8:29", "Ubiquiti UniFi AP">>, <<"24:5A:4C", "Ubiquiti UniFi AP">>,
    <<"44:D9:E7", "Ubiquiti UniFi AP">>, <<"68:72:51", "Ubiquiti UniFi AP">>, <<"74:83:C2", "Ubiquiti UniFi AP">>,
    <<"78:8A:20", "Ubiquiti UniFi AP">>, <<"80:2A:A8", "Ubiquiti UniFi AP">>, <<"B4:FB:E4", "Ubiquiti UniFi AP">>,
    <<"DC:9F:DB", "Ubiquiti UniFi AP">>, <<"E4:38:83", "Ubiquiti UniFi AP">>, <<"F0:9F:C2", "Ubiquiti UniFi AP">>,
    <<"FC:EC:DA", "Ubiquiti UniFi AP">>, <<"14:CC:20", "TP-Link Router/AP">>, <<"50:C7:BF", "TP-Link Router/AP">>,
    <<"60:E3:27", "TP-Link Router/AP">>, <<"6C:5A:B0", "TP-Link Router/AP">>, <<"84:16:F9", "TP-Link Router/AP">>,
    <<"A0:F3:C1", "TP-Link Router/AP">>, <<"B0:4E:26", "TP-Link Router/AP">>, <<"C0:25:A2", "TP-Link Router/AP">>,
    <<"E8:DE:27", "TP-Link Router/AP">>, <<"F4:EC:38", "TP-Link Router/AP">>, <<"B8:27:EB", "Raspberry Pi">>,
    <<"DC:A6:32", "Raspberry Pi">>, <<"E4:5F:01", "Raspberry Pi">>, <<"00:13:A2", "Digi XBee">>,
    <<"00:50:C2", "IEEE 802.11 devices">>, <<"02:00:00", "Private/Random MAC">>, <<"00:0E:8E", "Rajant Mesh Node">>,
    <<"00:1C:9E", "Rajant Mesh Node">>, <<"00:24:7E", "Rajant Mesh Node">>>>

\* The dict a literal evaluates to: each key once, with its last value
DictOf(pairs) == [k \in {pairs[i][1] : i \in 1..Len(pairs)} |-> DictGet(pairs, k)]

\* MobilePhoneDetector._load_mobile_ouis and _load_infrastructure_ouis
_load_mobile_ouis == DictOf(mobile_ouis_literal)
_load_infrastructure_ouis == DictOf(infrastructure_ouis_literal)

-----------------------------------------------------------------------------
(* MobilePhoneDetector                                                     *)

\* config['signal_variance_threshold'] and config['min_confidence_score'] (in
\* hundredths)
signal_variance_threshold == 10
min_confidence_score == 70

\* MobilePhoneDetector.get_oui
get_oui(mac) == Prefix(Remove(Remove(Upper(mac), ":"), "-"), 6)

\* MobilePhoneDetector.format_oui: f"{oui[:2]}:{oui[2:4]}:{oui[4:6]}"
format_oui(oui) ==
  SubSeq(oui, 1, Min(2, Len(oui))) \o ":" \o
  SubSeq(oui, 3, Min(4, Len(oui))) \o ":" \o
  SubSeq(oui, 5, Min(6, Len(oui)))

\* _is_randomized_mac testing bit 0x01 (multicast) for bit 0x02
_is_randomized_mac_bit1(mac) ==
  LET first == SplitFirst(mac, ":")
  IN  IF IntRaises(first) THEN FALSE
      ELSE SubSeq(first, Len(first), Len(first)) \in
             {"1", "3", "5", "7", "9", "B", "D", "F", "b", "d", "f"}

\* MobilePhoneDetector._is_randomized_mac; the bare except turns the ValueError
\* of int() into False.
_is_randomized_mac(mac) ==
  LET first == SplitFirst(mac, ":")
  IN  IF IntRaises(first) THEN FALSE ELSE IntHasBit2(first)

\* The largest r with r * r <= x, for x >= 0.
RECURSIVE ISqrtIn(_, _, _)
ISqrtIn(x, lo, hi) ==
  IF lo >= hi THEN lo
  ELSE LET mid == (lo + hi + 1) \div 2
       IN  IF mid * mid <= x THEN ISqrtIn(x, mid, hi) ELSE ISqrtIn(x, lo, mid - 1)
ISqrt(x) == ISqrtIn(x, 0, Min(x, 46340))

RECURSIVE SumSeq(_)
SumSeq(xs) == IF Len(xs) = 0 THEN 0 ELSE xs[1] + SumSeq(Tail(xs))

\* MobilePhoneDetector._calculate_signal_variance: the population standard
\* deviation, in hundredths rounded down. With n samples of sum S and sum of
\* squares S2 the variance is (n * S2 - S * S) / n^2.
_calculate_signal_variance(signals) ==
  IF Len(signals) < 2 THEN 0
  ELSE LET n == Len(signals)
           S == SumSeq(signals)
           S2 == SumSeq([i \in 1..n |-> signals[i] * signals[i]])
       IN  ISqrt(((n * S2 - S * S) * 10000) \div (n * n))

\* MobilePhoneDetector._calculate_behavior_score, in hundredths:
\* movement_score * 0.5 + 0.7 * 0.3 + 0.6 * 0.2
_calculate_behavior_score(signal_pattern) ==
  LET movement_score == Min(_calculate_signal_variance(signal_pattern) \div 15, 100)
      time_score == 70
      frequency_score == 60
  IN  (movement_score * 50 + time_score * 30 + frequency_score * 20) \div 100

\* f"{confidence:.2f}" of a confidence in hundredths, 0 <= c
Fmt2f(c) ==
  ToString(c \div 100) \o "." \o ToString((c % 100) \div 10) \o ToString(c % 10)

\* _analyze_unknown_device reading a missing history as an empty one
_analyze_unknown_device_empty_default(h, mac) ==
  IF mac \notin DOMAIN h
  THEN <<FALSE, 0, "Unknown Static Device">>
  ELSE LET device == h[mac]
           signal_variance == _calculate_signal_variance(device.signal_pattern)
           movement_score == Min((signal_variance) \div signal_variance_threshold, 100)
           confidence == (movement_score * 60 + device.behavior_score * 40) \div 100
       IN  <<confidence > min_confidence_score, confidence,
             IF confidence > min_confidence_score
             THEN "Unknown Mobile (Behavior Score: " \o Fmt2f(confidence) \o ")"
             ELSE "Unknown Static Device">>

\* MobilePhoneDetector._analyze_unknown_device(mac), reading history h
_analyze_unknown_device(h, mac) ==
  IF mac \notin DOMAIN h
  THEN <<FALSE, 30, "Unknown Device (Need More Data)">>
  ELSE LET device == h[mac]
           signal_variance == _calculate_signal_variance(device.signal_pattern)
           movement_score == Min((signal_variance) \div signal_variance_threshold, 100)
           behavior_score == device.behavior_score
           confidence == (movement_score * 60 + behavior_score * 40) \div 100
           is_mobile == confidence > min_confidence_score
       IN  <<is_mobile, confidence,
             IF is_mobile
             THEN "Unknown Mobile (Behavior Score: " \o Fmt2f(confidence) \o ")"
             ELSE "Unknown Static Device">>

\* MobilePhoneDetector.is_mobile_device(mac), reading the tables mobile and
\* infra and the history h: (is_mobile, confidence, device_type)
is_mobile_device(mobile, infra, h, mac) ==
  LET oui == get_oui(mac)
      formatted_oui == format_oui(oui)
  IN  IF formatted_oui \in DOMAIN mobile
      THEN <<TRUE, 95, mobile[formatted_oui]>>
      ELSE IF formatted_oui \in DOMAIN infra
      THEN <<FALSE, 95, infra[formatted_oui]>>
      ELSE IF _is_randomized_mac(mac)
      THEN <<TRUE, 80, "Mobile (Randomized MAC)">>
      ELSE _analyze_unknown_device(h, mac)

\* The DeviceInfo that update_device_history stores for mac (first_seen, which
\* nothing reads, is left out).
update_device_history(h, mac, signal_strength) ==
  IF mac \notin DOMAIN h
  THEN [m \in DOMAIN h \cup {mac} |->
          IF m = mac
          THEN [mac |-> mac, vendor |-> "Unknown", device_type |-> "Unknown",
                confidence |-> 0, signal_pattern |-> <<signal_strength>>,
                behavior_score |-> 0]
          ELSE h[m]]
  ELSE LET pattern == LastN(Append(h[mac].signal_pattern, signal_strength), 20)
       IN  [h EXCEPT ![mac].signal_pattern = pattern,
                     ![mac].behavior_score = _calculate_behavior_score(pattern)]

-----------------------------------------------------------------------------
(* SmartMACTracker                                                         *)

\* A dict whose keys are added at run time, as the function from its keys.
Put(f, k, v) == [x \in DOMAIN f \cup {k} |-> IF x = k THEN v ELSE f[x]]

\* known_users is iterated (find_potential_user_match), and a Python dict
\* iterates in insertion order, so it is the sequence of its entries in
\* insertion order; assigning to a key it holds replaces the entry in place.
UserKeys(users) == {users[i].mac : i \in 1..Len(users)}
UserGet(users, mac) == users[CHOOSE i \in 1..Len(users) : users[i].mac = mac]
\* A registry that appends every registration, also under a key it already holds
UserPut_append(users, entry) == Append(users, entry)
UserPut(users, entry) ==
  IF entry.mac \in UserKeys(users)
  THEN [i \in 1..Len(users) |-> IF users[i].mac = entry.mac THEN entry ELSE users[i]]
  ELSE Append(users, entry)

\* known_ouis of _analyze_randomness, flattened: any(oui in ouis for ouis in
\* known_ouis.values()) asks only whether some list holds the oui.
known_ouis ==
  {"001EC2", "0050E4", "001D4F", "002608", "0023DF",
   "001377", "002566", "001AA0", "0021FB",
   "DA0E14", "F4F5E8", "3C5AB4"}

\* SmartMACTracker._analyze_randomness
_analyze_randomness(mac_clean) ==
  LET oui == Prefix(mac_clean, 6)
  IN  oui \notin known_ouis

\* mac_clean of detect_randomized_mac
mac_clean_of(mac_address) == Upper(Remove(mac_address, ":"))

\* detect_randomized_mac raises: the first indicator, int(mac[1], 16), is always
\* evaluated; mac[1] raises IndexError on fewer than two characters and int()
\* raises ValueError on a character that is no hex digit.
detect_raises(mac_address) ==
  LET mac == mac_clean_of(mac_address)
  IN  Len(mac) < 2 \/ IntRaises(CharAt(mac, 1))

\* detect_randomized_mac with all() for any()
detect_randomized_mac_all(mac_address) ==
  LET mac == Upper(Remove(mac_address, ":"))
  IN  /\ IntHasBit2(CharAt(mac, 1))
      /\ \E p \in {"02", "06", "0A", "0E"} : StartsWith(mac, p)
      /\ \E p \in {"DA", "DE", "D6", "D2"} : StartsWith(mac, p)
      /\ Prefix(mac, 6) \notin known_ouis

\* detect_randomized_mac without the indicator that asks _analyze_randomness
detect_randomized_mac_no_oui_check(mac_address) ==
  LET mac == Upper(Remove(mac_address, ":"))
  IN  \/ IntHasBit2(CharAt(mac, 1))
      \/ \E p \in {"02", "06", "0A", "0E"} : StartsWith(mac, p)
      \/ \E p \in {"DA", "DE", "D6", "D2"} : StartsWith(mac, p)

\* SmartMACTracker.detect_randomized_mac, where it does not raise
detect_randomized_mac(mac_address) ==
  LET mac == mac_clean_of(mac_address)
  IN  \/ IntHasBit2(CharAt(mac, 1))
      \/ \E p \in {"02", "06", "0A", "0E"} : StartsWith(mac, p)
      \/ \E p \in {"DA", "DE", "D6", "D2"} : StartsWith(mac, p)
      \/ _analyze_randomness(mac)

\* SmartMACTracker._get_vendor_info
_get_vendor_info(mac) ==
  LET oui == Upper(Prefix(Remove(mac, ":"), 6))
  IN  CASE oui = "001EC2" -> "Apple"
        [] oui = "002608" -> "Apple"
        [] oui = "DA0E14" -> "Google"
        [] oui = "001377" -> "Samsung"
        [] OTHER -> "Unknown"

\* record_sample with the cut taken from the wrong end: [:50] for [-50:]
record_sample_keep_oldest(h, mac, signal, node_id, now) ==
  LET old == IF mac \in DOMAIN h THEN h[mac] ELSE <<>>
      appended == Append(old, [signal |-> signal, node |-> node_id, timestamp |-> now])
  IN  Put(h, mac, IF Len(appended) > 50 THEN SubSeq(appended, 1, 50) ELSE appended)

\* record_sample that rebuilds mac_history with the tracked MAC as its only key
record_sample_reset_others(h, mac, signal, node_id, now) ==
  LET old == IF mac \in DOMAIN h THEN h[mac] ELSE <<>>
      appended == Append(old, [signal |-> signal, node |-> node_id, timestamp |-> now])
  IN  [m \in {mac} |-> IF Len(appended) > 50 THEN LastN(appended, 50) ELSE appended]

\* create_device_fingerprint, its update of mac_history: the sample is appended
\* and the list cut to its last 50.
record_sample(h, mac, signal, node_id, now) ==
  LET old == IF mac \in DOMAIN h THEN h[mac] ELSE <<>>
      appended == Append(old, [signal |-> signal, node |-> node_id, timestamp |-> now])
  IN  Put(h, mac, IF Len(appended) > 50 THEN LastN(appended, 50) ELSE appended)

\* A fingerprint whose two windows are exchanged: 5 signals and 10 node ids
create_device_fingerprint_swapped_windows(h, mac, signal) ==
  [current_mac |-> mac,
   signal_strength |-> signal,
   signal_pattern |-> [i \in 1..Len(LastN(h[mac], 5)) |-> LastN(h[mac], 5)[i].signal],
   movement_pattern |-> [i \in 1..Len(LastN(h[mac], 10)) |-> LastN(h[mac], 10)[i].node],
   vendor_info |-> _get_vendor_info(mac)]

\* create_device_fingerprint, the DeviceFingerprint it returns, read from the
\* updated history h (connection_time and the capabilities, which nothing
\* reads, are left out).
create_device_fingerprint(h, mac, signal) ==
  [current_mac |-> mac,
   signal_strength |-> signal,
   signal_pattern |-> [i \in 1..Len(LastN(h[mac], 10)) |-> LastN(h[mac], 10)[i].signal],
   movement_pattern |-> [i \in 1..Len(LastN(h[mac], 5)) |-> LastN(h[mac], 5)[i].node],
   vendor_info |-> _get_vendor_info(mac)]

\* _signal_pattern_similarity that scales by the length of its first argument
_signal_pattern_similarity_by_first(pattern1, pattern2) ==
  IF Len(pattern1) = 0 \/ Len(pattern2) = 0 THEN <<0, 1>>
  ELSE LET min_len == Min(Len(pattern1), Len(pattern2))
           p1 == LastN(pattern1, min_len)
           p2 == LastN(pattern2, min_len)
           diff_sum == SumSeq([i \in 1..min_len |-> Abs(p1[i] - p2[i])])
           max_diff == Len(pattern1) * 100
       IN  IF min_len < 3 THEN <<0, 1>>
           ELSE <<Max(0, max_diff - diff_sum), max_diff>>

\* _signal_pattern_similarity that compares overlaps of any length
_signal_pattern_similarity_no_minimum(pattern1, pattern2) ==
  IF Len(pattern1) = 0 \/ Len(pattern2) = 0 THEN <<0, 1>>
  ELSE LET min_len == Min(Len(pattern1), Len(pattern2))
           p1 == LastN(pattern1, min_len)
           p2 == LastN(pattern2, min_len)
           diff_sum == SumSeq([i \in 1..min_len |-> Abs(p1[i] - p2[i])])
           max_diff == min_len * 100
       IN  <<Max(0, max_diff - diff_sum), max_diff>>

\* SmartMACTracker._signal_pattern_similarity, as the fraction <<num, den>>:
\* max(0, 1 - diff_sum / max_diff) is max(0, max_diff - diff_sum) / max_diff.
_signal_pattern_similarity(pattern1, pattern2) ==
  IF Len(pattern1) = 0 \/ Len(pattern2) = 0 THEN <<0, 1>>
  ELSE LET min_len == Min(Len(pattern1), Len(pattern2))
           p1 == LastN(pattern1, min_len)
           p2 == LastN(pattern2, min_len)
           diff_sum == SumSeq([i \in 1..min_len |-> Abs(p1[i] - p2[i])])
           max_diff == min_len * 100
       IN  IF min_len < 3 THEN <<0, 1>>
           ELSE <<Max(0, max_diff - diff_sum), max_diff>>

\* _movement_pattern_similarity that aligns the patterns on their oldest elements
_movement_pattern_similarity_from_start(pattern1, pattern2) ==
  IF Len(pattern1) = 0 \/ Len(pattern2) = 0 THEN <<0, 1>>
  ELSE LET total_sequences == Max(Len(pattern1), Len(pattern2))
           common_sequences ==
             Cardinality({i \in 1..Min(Len(pattern1), Len(pattern2)) :
                            pattern1[i] = pattern2[i]})
       IN  <<common_sequences, total_sequences>>

\* SmartMACTracker._movement_pattern_similarity, as the fraction <<num, den>>
_movement_pattern_similarity(pattern1, pattern2) ==
  IF Len(pattern1) = 0 \/ Len(pattern2) = 0 THEN <<0, 1>>
  ELSE LET total_sequences == Max(Len(pattern1), Len(pattern2))
           common_sequences ==
             Cardinality({i \in 0..(Min(Len(pattern1), Len(pattern2)) - 1) :
                            pattern1[Len(pattern1) - i] = pattern2[Len(pattern2) - i]})
       IN  <<common_sequences, total_sequences>>

\* frac > tenths / 10
FracGt(frac, tenths) == frac[1] * 10 > tenths * frac[2]

\* _calculate_similarity_score returning the sum of the credited weights, not
\* divided by factors (in thirtieths)
_calculate_similarity_score_undivided(h, fingerprint, stored_mac) ==
  LET stored_vendor == _get_vendor_info(stored_mac)
      vendor ==
        IF stored_vendor = fingerprint.vendor_info /\ stored_vendor /= "Unknown"
        THEN 3 ELSE 0
      signal ==
        IF stored_mac \in DOMAIN h /\ Len(h[stored_mac]) > 5
        THEN LET stored_signals ==
                   [i \in 1..Len(LastN(h[stored_mac], 10)) |-> LastN(h[stored_mac], 10)[i].signal]
             IN  IF FracGt(_signal_pattern_similarity(fingerprint.signal_pattern, stored_signals), 8)
                 THEN 4 ELSE 0
        ELSE 0
      movement ==
        IF stored_mac \in DOMAIN h
        THEN LET stored_movement ==
                   [i \in 1..Len(LastN(h[stored_mac], 5)) |-> LastN(h[stored_mac], 5)[i].node]
             IN  IF FracGt(_movement_pattern_similarity(fingerprint.movement_pattern, stored_movement), 6)
                 THEN 3 ELSE 0
        ELSE 0
  IN  (vendor + signal + movement) * 3

\* SmartMACTracker._calculate_similarity_score, in thirtieths: the credited
\* weights 0.3, 0.4, 0.3 are counted in tenths and divided by factors = 3.
_calculate_similarity_score(h, fingerprint, stored_mac) ==
  LET stored_vendor == _get_vendor_info(stored_mac)
      vendor ==
        IF stored_vendor = fingerprint.vendor_info /\ stored_vendor /= "Unknown"
        THEN 3 ELSE 0
      signal ==
        IF stored_mac \in DOMAIN h /\ Len(h[stored_mac]) > 5
        THEN LET stored_signals ==
                   [i \in 1..Len(LastN(h[stored_mac], 10)) |-> LastN(h[stored_mac], 10)[i].signal]
             IN  IF FracGt(_signal_pattern_similarity(fingerprint.signal_pattern, stored_signals), 8)
                 THEN 4 ELSE 0
        ELSE 0
      movement ==
        IF stored_mac \in DOMAIN h
        THEN LET stored_movement ==
                   [i \in 1..Len(LastN(h[stored_mac], 5)) |-> LastN(h[stored_mac], 5)[i].node]
             IN  IF FracGt(_movement_pattern_similarity(fingerprint.movement_pattern, stored_movement), 6)
                 THEN 3 ELSE 0
        ELSE 0
      factors == 3
  IN  ((vendor + signal + movement) * 3) \div factors

\* The loop of find_potential_user_match over known_users.items(), from entry
\* i on, with the best match so far: <<best_match, best_score>>.
RECURSIVE MatchLoop(_, _, _, _, _)
MatchLoop(users, h, fingerprint, i, best) ==
  IF i > Len(users) THEN best
  ELSE LET user_data == users[i]
           score == _calculate_similarity_score(h, fingerprint, user_data.mac)
       IN  IF user_data.is_randomized /\ score > best[2] /\ score > 21
           THEN MatchLoop(users, h, fingerprint, i + 1, <<Some(user_data.name), score>>)
           ELSE MatchLoop(users, h, fingerprint, i + 1, best)

\* find_potential_user_match taking the direct match only for an entry that is
\* not flagged is_randomized
find_potential_user_match_unflagged_only(users, h, fingerprint) ==
  IF /\ fingerprint.current_mac \in UserKeys(users)
     /\ ~UserGet(users, fingerprint.current_mac).is_randomized
  THEN Some(UserGet(users, fingerprint.current_mac).name)
  ELSE MatchLoop(users, h, fingerprint, 1, <<None, 0>>)[1]

\* find_potential_user_match whose loop forgets the 0.7 threshold
RECURSIVE MatchLoopNoThreshold(_, _, _, _, _)
MatchLoopNoThreshold(users, h, fingerprint, i, best) ==
  IF i > Len(users) THEN best
  ELSE LET user_data == users[i]
           score == _calculate_similarity_score(h, fingerprint, user_data.mac)
       IN  IF user_data.is_randomized /\ score > best[2]
           THEN MatchLoopNoThreshold(users, h, fingerprint, i + 1,
                                     <<Some(user_data.name), score>>)
           ELSE MatchLoopNoThreshold(users, h, fingerprint, i + 1, best)
find_potential_user_match_no_threshold(users, h, fingerprint) ==
  IF fingerprint.current_mac \in UserKeys(users)
  THEN Some(UserGet(users, fingerprint.current_mac).name)
  ELSE MatchLoopNoThreshold(users, h, fingerprint, 1, <<None, 0>>)[1]

\* SmartMACTracker.find_potential_user_match: Optional[str]
find_potential_user_match(users, h, fingerprint) ==
  IF fingerprint.current_mac \in UserKeys(users)
  THEN Some(UserGet(users, fingerprint.current_mac).name)
  ELSE MatchLoop(users, h, fingerprint, 1, <<None, 0>>)[1]

\* Python's truth value of an Optional[str]: None and '' are false.
Truthy(opt) == opt /= None /\ opt[1] /= ""

\* The confidence of track_device's result, in hundredths
track_confidence(identified_user, is_randomized) ==
  IF Truthy(identified_user) /\ ~is_randomized THEN 100 ELSE 50

-----------------------------------------------------------------------------
(* Bounds and inputs                                                       *)

\* Calls of track_device in a run of Spec
MaxTrack == 2
\* Calls of update_device_history in a run of SpecDetector
MaxUpdate == 3
\* Calls of track_device, and of update_device_history, in a run of SpecLong
MaxLongTrack == 52
MaxLongUpdate == 22
\* Unvalidated input: registrations, tracking calls and history updates
MaxInput == 2
\* Concurrent use: track_device calls begun by the threads
MaxConcurrent == 3
\* Matching: tracking calls for a registered device and an unregistered one
MaxMatchTrack == 10
\* The functions on their own: the longest pattern given to a similarity
MaxPatternLen == 6
\* The monitor: detections handed to _process_mac_detection
MaxDetect == 4
\* The filter: devices handed to filter_mobile_devices, over all its calls
MaxFilter == 3

\* AA:BB:CC is in no table and has the locally-administered bit; DA:0E:14 is in
\* known_ouis and vendor_map (Google); 00:1E:C2 is in known_ouis, vendor_map
\* (Apple) and the mobile table.
TrackerMACs == {"AA:BB:CC:DD:EE:FF", "DA:0E:14:12:34:56", "00:1E:C2:11:22:33"}
Names == {"Glenn", ""}
Signals == {-45}
Nodes == {"node_001", "node_002"}

\* 8C:85:90 is listed twice in the mobile table, 04:18:D6 in both tables,
\* B8:27:EB and 02:00:00 in the infrastructure table; A2:11:22, AA:BB:CC and
\* 00:11:22 are in neither table.
DetectorMACs ==
  {"00:1E:C2:11:22:33", "8C:85:90:11:22:33", "04:18:D6:9A:BC:DE",
   "B8:27:EB:DE:F0:12", "02:00:00:00:00:01", "A2:11:22:33:44:55",
   "AA:BB:CC:DD:EE:FF", "A2-11-22-33-44-55", "00:11:22:33:44:55"}
DetectorSignals == {-30, -60}

\* Strings a caller can pass where a MAC address is expected: the empty string,
\* one with no hex digit, one that is three octets short (its text is an OUI of
\* the mobile table), and four spellings of two addresses (uppercase with
\* colons, lowercase, dashes).
InputMACs ==
  {"", "ZZ:ZZ:ZZ:ZZ:ZZ:ZZ", "3C:2E:FF",
   "A2:11:22:33:44:55", "a2:11:22:33:44:55", "A2-11-22-33-44-55",
   "00:1E:C2:11:22:33", "00-1e-c2-11-22-33"}
InputName == "Glenn"
InputSignal == 0 - 45
InputNode == "node_001"

\* The devices tracked by concurrent calls
ConcurrentMACs == {"AA:BB:CC:DD:EE:FF", "00:1E:C2:11:22:33"}

\* Two devices of one vendor (DA:0E:14 is Google in vendor_map and a known
\* OUI), both flagged randomized by their first octet DA
MatchMACs == {"DA:0E:14:12:34:56", "DA:0E:14:AB:CD:EF"}

\* Arguments of the functions taken on their own. The MACs are well-formed:
\* every first octet the prefix indicators name, first octets with and without
\* the locally-administered bit, OUIs of known_ouis and OUIs outside it.
PureMACs ==
  {"02:11:22:33:44:55", "06:11:22:33:44:55", "0A:11:22:33:44:55", "0E:11:22:33:44:55",
   "DA:11:22:33:44:55", "DE:11:22:33:44:55", "D6:11:22:33:44:55", "D2:11:22:33:44:55",
   "DA:0E:14:12:34:56", "00:11:22:33:44:55", "A2:11:22:33:44:55", "F4:11:22:33:44:55",
   "00:1E:C2:11:22:33", "00:50:E4:11:22:33", "00:13:77:11:22:33", "00:21:FB:11:22:33",
   "F4:F5:E8:11:22:33", "3C:5A:B4:11:22:33", "3C:2E:FF:11:22:33", "01:00:5E:11:22:33"}
PureSignals == {0 - 40, 0 - 90}
SignalPatterns == UNION {[1..n -> PureSignals] : n \in 0..MaxPatternLen}
MovementPatterns == UNION {[1..n -> Nodes] : n \in 0..MaxPatternLen}
\* The candidate a similarity score is computed for, and the device compared
\* with it
PureStoredMAC == "DA:0E:14:12:34:56"
PureCurrentMAC == "DA:0E:14:AB:CD:EF"

\* The devices and nodes of the monitor
MonitorMACs == {"00:1E:C2:11:22:33", "A2:11:22:33:44:55"}
MonitorNodes == {"rajant_10", "rajant_11"}

\* The devices a scan hands to filter_mobile_devices: one in neither table and
\* without the locally-administered bit, seen at two signal strengths, one of
\* the mobile table, one of the infrastructure table, one randomized
FilterDevices ==
  {[mac |-> "00:11:22:33:44:55", signal |-> 0 - 30, node |-> "node_001"],
   [mac |-> "00:11:22:33:44:55", signal |-> 0 - 60, node |-> "node_001"],
   [mac |-> "00:1E:C2:11:22:33", signal |-> 0 - 45, node |-> "node_001"],
   [mac |-> "B8:27:EB:DE:F0:12", signal |-> 0 - 45, node |-> "node_001"],
   [mac |-> "A2:11:22:33:44:55", signal |-> 0 - 45, node |-> "node_001"]}
\* The scans: lists of one or two devices
FilterLists == UNION {[1..n -> FilterDevices] : n \in {1, 2}}

LongMAC == "AA:BB:CC:DD:EE:FF"
\* The n-th sample of a long run
LongSignal(n) == 0 - 40 - (n % 7)
LongNode(n) == IF n % 3 = 0 THEN "node_001" ELSE "node_002"

-----------------------------------------------------------------------------
(* The state machine                                                       *)

EmptyDict == [x \in {} |-> <<>>]

\* The threads that call track_device on one SmartMACTracker, and a thread
\* that is in no call
Threads == {"t1", "t2"}
Idle == [pc |-> "idle", mac |-> "", signal |-> 0, node_id |-> "", timestamp |-> 0,
         stale |-> FALSE]

Init ==
  /\ known_users = <<>>
  /\ mac_history = EmptyDict
  /\ mobile_ouis = _load_mobile_ouis
  /\ infrastructure_ouis = _load_infrastructure_ouis
  /\ device_history = EmptyDict
  /\ clock = 0
  /\ ret = [op |-> "none"]
  /\ recorded = EmptyDict
  /\ det_recorded = EmptyDict
  /\ calls = [t \in Threads |-> Idle]
  /\ last_seen_macs = EmptyDict
  /\ detections = <<>>

\* register_user returning False for a randomized MAC before it stores the entry
register_user_warn_first(name, mac_address) ==
  /\ IF detect_raises(mac_address) \/ detect_randomized_mac(mac_address)
     THEN /\ known_users' = known_users
          /\ ret' = [op |-> "register_user", name |-> name, mac |-> mac_address,
                     raised |-> FALSE, value |-> FALSE]
     ELSE /\ known_users' = UserPut(known_users,
                 [mac |-> mac_address, name |-> name,
                  mac_history |-> <<mac_address>>, is_randomized |-> FALSE])
          /\ ret' = [op |-> "register_user", name |-> name, mac |-> mac_address,
                     raised |-> FALSE, value |-> TRUE]
  /\ UNCHANGED <<mac_history, mobile_ouis, infrastructure_ouis, device_history, clock,
                 recorded, det_recorded, calls,
                 last_seen_macs, detections>>

\* SmartMACTracker.register_user. The dict literal calls detect_randomized_mac
\* before the entry is assigned, so an exception leaves known_users as it was
\* and the except clause returns False. (registered_at, which nothing reads, is
\* left out of the entry.)
register_user(name, mac_address) ==
  /\ IF detect_raises(mac_address)
     THEN /\ known_users' = known_users
          /\ ret' = [op |-> "register_user", name |-> name, mac |-> mac_address,
                     raised |-> FALSE, value |-> FALSE]
     ELSE /\ known_users' = UserPut(known_users,
                 [mac |-> mac_address, name |-> name,
                  mac_history |-> <<mac_address>>,
                  is_randomized |-> detect_randomized_mac(mac_address)])
          /\ ret' = [op |-> "register_user", name |-> name, mac |-> mac_address,
                     raised |-> FALSE,
                     value |-> ~detect_randomized_mac(mac_address)]
  /\ UNCHANGED <<mac_history, mobile_ouis, infrastructure_ouis, device_history, clock,
                 recorded, det_recorded, calls,
                 last_seen_macs, detections>>

\* SmartMACTracker.track_device. The history is updated by
\* create_device_fingerprint before detect_randomized_mac can raise.
track_device(mac, signal, node_id) ==
  LET h == record_sample(mac_history, mac, signal, node_id, clock)
      fingerprint == create_device_fingerprint(h, mac, signal)
      identified_user == find_potential_user_match(known_users, h, fingerprint)
  IN  /\ mac_history' = h
      /\ clock' = clock + 1
      /\ recorded' = Put(recorded, mac,
                         Append(IF mac \in DOMAIN recorded THEN recorded[mac] ELSE <<>>,
                                [signal |-> signal, node |-> node_id, timestamp |-> clock]))
      /\ IF detect_raises(mac)
         THEN ret' = [op |-> "track_device", mac |-> mac, raised |-> TRUE]
         ELSE ret' = [op |-> "track_device", mac |-> mac, raised |-> FALSE,
                      identified_user |-> identified_user,
                      is_randomized |-> detect_randomized_mac(mac),
                      signal_strength |-> signal,
                      node_id |-> node_id,
                      confidence |-> track_confidence(identified_user,
                                                      detect_randomized_mac(mac)),
                      fingerprint |-> fingerprint]
      /\ UNCHANGED <<known_users, mobile_ouis, infrastructure_ouis, device_history,
                     det_recorded, calls,
                 last_seen_macs, detections>>

\* MobilePhoneDetector.update_device_history
UpdateDeviceHistory(mac, signal_strength, node_id) ==
  /\ device_history' = update_device_history(device_history, mac, signal_strength)
  /\ det_recorded' = Put(det_recorded, mac,
                         Append(IF mac \in DOMAIN det_recorded THEN det_recorded[mac] ELSE <<>>,
                                signal_strength))
  /\ ret' = [op |-> "update_device_history", mac |-> mac]
  /\ UNCHANGED <<known_users, mac_history, mobile_ouis, infrastructure_ouis, clock,
                 recorded, calls,
                 last_seen_macs, detections>>

\* A classification that writes its result into the device's stored DeviceInfo
IsMobileDevice_caches_result(mac) ==
  LET value == is_mobile_device(mobile_ouis, infrastructure_ouis, device_history, mac)
  IN  /\ ret' = [op |-> "is_mobile_device", mac |-> mac, value |-> value]
      /\ device_history' =
           IF mac \in DOMAIN device_history
           THEN [device_history EXCEPT ![mac].confidence = value[2],
                                       ![mac].device_type = value[3]]
           ELSE device_history
      /\ UNCHANGED <<known_users, mac_history, mobile_ouis, infrastructure_ouis,
                     clock, recorded, det_recorded, calls,
                 last_seen_macs, detections>>

\* A call of MobilePhoneDetector.is_mobile_device
IsMobileDevice(mac) ==
  /\ ret' = [op |-> "is_mobile_device", mac |-> mac,
             value |-> is_mobile_device(mobile_ouis, infrastructure_ouis,
                                        device_history, mac)]
  /\ UNCHANGED <<known_users, mac_history, mobile_ouis, infrastructure_ouis,
                 device_history, clock, recorded, det_recorded, calls,
                 last_seen_macs, detections>>

\* ch in s, for a one-character ch
HasChar(s, ch) == \E i \in 1..Len(s) : SubSeq(s, i, i) = ch

\* One turn of the loop of filter_mobile_devices that asks is_mobile_device
\* before it updates the history
filter_step_classify_first(mobile, infra, h, device) ==
  [h |-> update_device_history(h, device.mac, device.signal),
   value |-> is_mobile_device(mobile, infra, h, device.mac)]

\* One turn of the loop of filter_mobile_devices: the device's history is
\* updated, then the device is classified. The new history and the triple.
filter_step(mobile, infra, h, device) ==
  LET updated == update_device_history(h, device.mac, device.signal)
  IN  [h |-> updated,
       value |-> is_mobile_device(mobile, infra, updated, device.mac)]

\* The loop of filter_mobile_devices from device i on: the history it leaves,
\* the list mobile_devices and, in classified, the triple it got for every
\* device (the caller sees the triples of the devices it filters out only on
\* standard output).
RECURSIVE FilterLoop(_, _, _, _, _, _, _)
FilterLoop(mobile, infra, h, detected_devices, i, mobile_devices, classified) ==
  IF i > Len(detected_devices)
  THEN [h |-> h, mobile_devices |-> mobile_devices, classified |-> classified]
  ELSE LET device == detected_devices[i]
           step == filter_step(mobile, infra, h, device)
           device_type == step.value[3]
           device_info ==
             [mac |-> device.mac, signal |-> device.signal, node |-> device.node,
              is_mobile |-> TRUE,
              confidence |-> step.value[2],
              device_type |-> device_type,
              vendor |-> IF HasChar(device_type, " ")
                         THEN SplitFirst(device_type, " ") ELSE "Unknown",
              filter_reason |-> "Mobile Device Detected"]
       IN  FilterLoop(mobile, infra, step.h, detected_devices, i + 1,
                      IF step.value[1] THEN Append(mobile_devices, device_info)
                      ELSE mobile_devices,
                      Append(classified, step.value))

\* det_recorded after the signals of the devices from i on are passed to
\* update_device_history
RECURSIVE RecordAll(_, _, _)
RecordAll(f, detected_devices, i) ==
  IF i > Len(detected_devices) THEN f
  ELSE LET mac == detected_devices[i].mac
       IN  RecordAll(Put(f, mac, Append(IF mac \in DOMAIN f THEN f[mac] ELSE <<>>,
                                        detected_devices[i].signal)),
                     detected_devices, i + 1)

\* MobilePhoneDetector.filter_mobile_devices
filter_mobile_devices(detected_devices) ==
  LET result == FilterLoop(mobile_ouis, infrastructure_ouis, device_history,
                           detected_devices, 1, <<>>, <<>>)
  IN  /\ device_history' = result.h
      /\ det_recorded' = RecordAll(det_recorded, detected_devices, 1)
      /\ ret' = [op |-> "filter_mobile_devices",
                 detected_devices |-> detected_devices,
                 value |-> result.mobile_devices,
                 classified |-> result.classified]
      /\ UNCHANGED <<known_users, mac_history, mobile_ouis, infrastructure_ouis,
                     clock, recorded, calls, last_seen_macs, detections>>

\* The number of samples a history variable holds, over all its keys
RECURSIVE CallsIn(_, _)
CallsIn(f, keys) ==
  IF keys = {} THEN 0
  ELSE LET k == CHOOSE x \in keys : TRUE
       IN  Len(f[k]) + CallsIn(f, keys \ {k})
Calls(f) == CallsIn(f, DOMAIN f)
CallsFor(f, k) == IF k \in DOMAIN f THEN Len(f[k]) ELSE 0

\* The tracker: registrations and tracking calls, one at a time
Register == \E name \in Names, mac \in TrackerMACs : register_user(name, mac)
Track ==
  /\ clock < MaxTrack
  /\ \E mac \in TrackerMACs, signal \in Signals, node_id \in Nodes :
       track_device(mac, signal, node_id)
Next == Register \/ Track
Spec == Init /\ [][Next]_vars

\* The detector: history updates and classifications
Update ==
  /\ Calls(det_recorded) < MaxUpdate
  /\ \E mac \in DetectorMACs, signal \in DetectorSignals, node_id \in Nodes :
       UpdateDeviceHistory(mac, signal, node_id)
Classify == \E mac \in DetectorMACs : IsMobileDevice(mac)
NextDetector == Update \/ Classify
SpecDetector == Init /\ [][NextDetector]_vars

\* Long runs: one device observed again and again by the tracker and by the
\* detector, the n-th observation carrying LongSignal(n) and LongNode(n)
LongTrack ==
  /\ CallsFor(recorded, LongMAC) < MaxLongTrack
  /\ track_device(LongMAC, LongSignal(CallsFor(recorded, LongMAC)),
                  LongNode(CallsFor(recorded, LongMAC)))
LongUpdate ==
  /\ CallsFor(det_recorded, LongMAC) < MaxLongUpdate
  /\ UpdateDeviceHistory(LongMAC, LongSignal(CallsFor(det_recorded, LongMAC)),
                         LongNode(CallsFor(det_recorded, LongMAC)))
NextLong == LongTrack \/ LongUpdate
SpecLong == Init /\ [][NextLong]_vars

\* Unvalidated input. The tracker and the detector are two objects that share
\* no state, so a run exercises one of them: the tracker's calls follow only
\* tracker calls, the detector's only detector calls.
TrackerRun == ret.op \in {"none", "register_user", "track_device"}
DetectorRun == ret.op \in {"none", "update_device_history", "is_mobile_device"}
InputRegister ==
  /\ TrackerRun
  /\ Len(known_users) < MaxInput
  /\ \E mac \in InputMACs : register_user(InputName, mac)
InputTrack ==
  /\ TrackerRun
  /\ clock < MaxInput
  /\ \E mac \in InputMACs : track_device(mac, InputSignal, InputNode)
InputUpdate ==
  /\ DetectorRun
  /\ Calls(det_recorded) < MaxInput
  /\ \E mac \in InputMACs : UpdateDeviceHistory(mac, InputSignal, InputNode)
InputClassify ==
  /\ DetectorRun
  /\ \E mac \in InputMACs : IsMobileDevice(mac)
NextInput == InputRegister \/ InputTrack \/ InputUpdate \/ InputClassify
SpecInput == Init /\ [][NextInput]_vars

\* Concurrent use. SmartMACTracker takes no lock, so a track_device call of one
\* thread runs step by step between the steps of another's. A step is one read
\* or one write of the shared mac_history; "stale" says that the list object a
\* call has loaded is no longer the one mac_history holds for its MAC.
Unstamped == {t \in Threads : calls[t].pc \in {"check", "init", "stamp"}}

\* Another call rebinds mac_history[mac]: a call about to append to the list it
\* loaded before now holds a list the dict no longer refers to.
Rebound(t, mac, pc) ==
  [u \in Threads |->
     IF u = t THEN [calls[t] EXCEPT !.pc = pc]
     ELSE IF calls[u].pc = "append" /\ calls[u].mac = mac
     THEN [calls[u] EXCEPT !.stale = TRUE]
     ELSE calls[u]]

\* track_device is called
CallBegin(t, mac, signal, node_id) ==
  /\ calls[t].pc = "idle"
  /\ clock + Cardinality(Unstamped) < MaxConcurrent
  /\ calls' = [calls EXCEPT ![t] = [pc |-> "check", mac |-> mac, signal |-> signal,
                                    node_id |-> node_id, timestamp |-> 0,
                                    stale |-> FALSE]]
  /\ UNCHANGED <<known_users, mac_history, mobile_ouis, infrastructure_ouis,
                 device_history, clock, ret, recorded, det_recorded,
                 last_seen_macs, detections>>

\* create_device_fingerprint: if mac not in self.mac_history
CallCheck(t) ==
  /\ calls[t].pc = "check"
  /\ calls' = [calls EXCEPT ![t].pc = IF calls[t].mac \in DOMAIN mac_history
                                      THEN "stamp" ELSE "init"]
  /\ UNCHANGED <<known_users, mac_history, mobile_ouis, infrastructure_ouis,
                 device_history, clock, ret, recorded, det_recorded,
                 last_seen_macs, detections>>

\* create_device_fingerprint: self.mac_history[mac] = []
CallInit(t) ==
  /\ calls[t].pc = "init"
  /\ mac_history' = Put(mac_history, calls[t].mac, <<>>)
  /\ calls' = Rebound(t, calls[t].mac, "stamp")
  /\ UNCHANGED <<known_users, mobile_ouis, infrastructure_ouis, device_history,
                 clock, ret, recorded, det_recorded,
                 last_seen_macs, detections>>

\* create_device_fingerprint: the list self.mac_history[mac] is loaded and the
\* sample built, datetime.now() read, before append is called
CallStamp(t) ==
  /\ calls[t].pc = "stamp"
  /\ calls' = [calls EXCEPT ![t].pc = "append", ![t].timestamp = clock,
                            ![t].stale = FALSE]
  /\ clock' = clock + 1
  /\ UNCHANGED <<known_users, mac_history, mobile_ouis, infrastructure_ouis,
                 device_history, ret, recorded, det_recorded,
                 last_seen_macs, detections>>

\* create_device_fingerprint: append is called on the loaded list
CallAppend(t) ==
  LET mac == calls[t].mac
      sample == [signal |-> calls[t].signal, node |-> calls[t].node_id,
                 timestamp |-> calls[t].timestamp]
  IN  /\ calls[t].pc = "append"
      /\ mac_history' = IF calls[t].stale THEN mac_history
                        ELSE Put(mac_history, mac, Append(mac_history[mac], sample))
      /\ recorded' = Put(recorded, mac,
                         Append(IF mac \in DOMAIN recorded THEN recorded[mac] ELSE <<>>,
                                sample))
      /\ calls' = [calls EXCEPT ![t].pc = "cut"]
      /\ UNCHANGED <<known_users, mobile_ouis, infrastructure_ouis, device_history,
                     clock, ret, det_recorded,
                 last_seen_macs, detections>>

\* create_device_fingerprint: the cut to the last 50 (taken as one step: no
\* run of this size fills a history)
CallCut(t) ==
  LET mac == calls[t].mac
  IN  /\ calls[t].pc = "cut"
      /\ IF Len(mac_history[mac]) > 50
         THEN /\ mac_history' = Put(mac_history, mac, LastN(mac_history[mac], 50))
              /\ calls' = Rebound(t, mac, "result")
         ELSE /\ mac_history' = mac_history
              /\ calls' = [calls EXCEPT ![t].pc = "result"]
      /\ UNCHANGED <<known_users, mobile_ouis, infrastructure_ouis, device_history,
                     clock, ret, recorded, det_recorded,
                 last_seen_macs, detections>>

\* The rest of create_device_fingerprint and of track_device, which only read:
\* the fingerprint, the match, the result
CallReturn(t) ==
  LET mac == calls[t].mac
      fingerprint == create_device_fingerprint(mac_history, mac, calls[t].signal)
      identified_user == find_potential_user_match(known_users, mac_history, fingerprint)
  IN  /\ calls[t].pc = "result"
      /\ IF detect_raises(mac)
         THEN ret' = [op |-> "track_device", mac |-> mac, raised |-> TRUE]
         ELSE ret' = [op |-> "track_device", mac |-> mac, raised |-> FALSE,
                      identified_user |-> identified_user,
                      is_randomized |-> detect_randomized_mac(mac),
                      signal_strength |-> calls[t].signal,
                      node_id |-> calls[t].node_id,
                      confidence |-> track_confidence(identified_user,
                                                      detect_randomized_mac(mac)),
                      fingerprint |-> fingerprint]
      /\ calls' = [calls EXCEPT ![t] = Idle]
      /\ UNCHANGED <<known_users, mac_history, mobile_ouis, infrastructure_ouis,
                     device_history, clock, recorded, det_recorded,
                 last_seen_macs, detections>>

ConcurrentBegin ==
  \E t \in Threads, mac \in ConcurrentMACs : CallBegin(t, mac, InputSignal, InputNode)
ConcurrentStep ==
  \E t \in Threads :
    \/ CallCheck(t)
    \/ CallInit(t)
    \/ CallStamp(t)
    \/ CallAppend(t)
    \/ CallCut(t)
    \/ CallReturn(t)
NextConcurrent == ConcurrentBegin \/ ConcurrentStep
SpecConcurrent == Init /\ [][NextConcurrent]_vars

\* Matching: histories long enough for every term of the similarity score
MatchRegister == \E mac \in MatchMACs : register_user(InputName, mac)
MatchTrack ==
  /\ clock < MaxMatchTrack
  /\ \E mac \in MatchMACs : track_device(mac, InputSignal, InputNode)
NextMatch == MatchRegister \/ MatchTrack
SpecMatch == Init /\ [][NextMatch]_vars

\* The functions on their own: a run starts with the arguments of one call and
\* its only step is that call.
PureArgs ==
  {[op |-> "args", fn |-> "detect_randomized_mac", mac |-> mac] : mac \in PureMACs}
    \cup {[op |-> "args", fn |-> fn, pattern1 |-> p1, pattern2 |-> p2] :
            fn \in {"_signal_pattern_similarity", "_calculate_similarity_score"},
            p1 \in SignalPatterns, p2 \in SignalPatterns}
    \cup {[op |-> "args", fn |-> "_movement_pattern_similarity",
           nodes1 |-> p1, nodes2 |-> p2] :
            p1 \in MovementPatterns, p2 \in MovementPatterns}
InitPure ==
  /\ known_users = <<>>
  /\ mac_history = EmptyDict
  /\ mobile_ouis = _load_mobile_ouis
  /\ infrastructure_ouis = _load_infrastructure_ouis
  /\ device_history = EmptyDict
  /\ clock = 0
  /\ ret \in PureArgs
  /\ recorded = EmptyDict
  /\ det_recorded = EmptyDict
  /\ calls = [t \in Threads |-> Idle]
  /\ last_seen_macs = EmptyDict
  /\ detections = <<>>

\* A history holding the samples of a signal pattern, all seen at one node
HistoryOf(mac, pattern) ==
  Put(EmptyDict, mac,
      [i \in 1..Len(pattern) |->
         [signal |-> pattern[i], node |-> InputNode, timestamp |-> i]])
\* The fingerprint of a device whose recent signals are the pattern, seen at
\* the same node
FingerprintOf(mac, pattern) ==
  [current_mac |-> mac,
   signal_strength |-> IF Len(pattern) = 0 THEN 0 ELSE pattern[Len(pattern)],
   signal_pattern |-> pattern,
   movement_pattern |-> [i \in 1..Min(5, Len(pattern)) |-> InputNode],
   vendor_info |-> _get_vendor_info(mac)]

CallDetect ==
  /\ ret.op = "args" /\ ret.fn = "detect_randomized_mac"
  /\ ret' = [op |-> "detect_randomized_mac", mac |-> ret.mac,
             value |-> detect_randomized_mac(ret.mac)]
  /\ UNCHANGED <<known_users, mac_history, mobile_ouis, infrastructure_ouis,
                 device_history, clock, recorded, det_recorded, calls,
                 last_seen_macs, detections>>
CallSignalSimilarity ==
  /\ ret.op = "args" /\ ret.fn = "_signal_pattern_similarity"
  /\ ret' = [op |-> "_signal_pattern_similarity",
             pattern1 |-> ret.pattern1, pattern2 |-> ret.pattern2,
             value |-> _signal_pattern_similarity(ret.pattern1, ret.pattern2)]
  /\ UNCHANGED <<known_users, mac_history, mobile_ouis, infrastructure_ouis,
                 device_history, clock, recorded, det_recorded, calls,
                 last_seen_macs, detections>>
CallMovementSimilarity ==
  /\ ret.op = "args" /\ ret.fn = "_movement_pattern_similarity"
  /\ ret' = [op |-> "_movement_pattern_similarity",
             nodes1 |-> ret.nodes1, nodes2 |-> ret.nodes2,
             value |-> _movement_pattern_similarity(ret.nodes1, ret.nodes2)]
  /\ UNCHANGED <<known_users, mac_history, mobile_ouis, infrastructure_ouis,
                 device_history, clock, recorded, det_recorded, calls,
                 last_seen_macs, detections>>
\* _calculate_similarity_score of the candidate PureStoredMAC, whose stored
\* samples carry pattern2, against a fingerprint whose signal pattern is pattern1
CallSimilarityScore ==
  /\ ret.op = "args" /\ ret.fn = "_calculate_similarity_score"
  /\ ret' = [op |-> "_calculate_similarity_score",
             pattern1 |-> ret.pattern1, pattern2 |-> ret.pattern2,
             value |-> _calculate_similarity_score(
                         HistoryOf(PureStoredMAC, ret.pattern2),
                         FingerprintOf(PureCurrentMAC, ret.pattern1),
                         PureStoredMAC)]
  /\ UNCHANGED <<known_users, mac_history, mobile_ouis, infrastructure_ouis,
                 device_history, clock, recorded, det_recorded, calls,
                 last_seen_macs, detections>>
NextPure ==
  CallDetect \/ CallSignalSimilarity \/ CallMovementSimilarity \/ CallSimilarityScore
SpecPure == InitPure /\ [][NextPure]_vars

\* _process_mac_detection writing last_seen_macs before it sends the report
_process_mac_detection_mark_first(node_id, mac_address, registered_user, success) ==
  LET skip == mac_address \in DOMAIN last_seen_macs
                /\ last_seen_macs[mac_address] = node_id
  IN  /\ last_seen_macs' = IF skip THEN last_seen_macs
                           ELSE Put(last_seen_macs, mac_address, node_id)
      /\ detections' = Append(detections,
                              [mac |-> mac_address, node |-> node_id,
                               sent |-> ~skip, success |-> ~skip /\ success])
      /\ ret' = [op |-> "_process_mac_detection", mac |-> mac_address,
                 node |-> node_id,
                 endpoint |-> IF skip THEN "none"
                              ELSE IF registered_user THEN "log-position"
                              ELSE "log-unauthorized"]
      /\ UNCHANGED <<known_users, mac_history, mobile_ouis, infrastructure_ouis,
                     device_history, clock, recorded, det_recorded, calls>>

\* RajantMacMonitor._process_mac_detection with the call it makes to
\* _log_registered_user_position or _log_unauthorized_access. registered_user
\* is what is_registered_user answers and success what the send returns (True
\* for HTTP 200, False for any other status or an exception): both belong to
\* the backend.
_process_mac_detection(node_id, mac_address, registered_user, success) ==
  LET skip == mac_address \in DOMAIN last_seen_macs
                /\ last_seen_macs[mac_address] = node_id
  IN  /\ last_seen_macs' = IF ~skip /\ success
                           THEN Put(last_seen_macs, mac_address, node_id)
                           ELSE last_seen_macs
      /\ detections' = Append(detections,
                              [mac |-> mac_address, node |-> node_id,
                               sent |-> ~skip, success |-> ~skip /\ success])
      /\ ret' = [op |-> "_process_mac_detection", mac |-> mac_address,
                 node |-> node_id,
                 endpoint |-> IF skip THEN "none"
                              ELSE IF registered_user THEN "log-position"
                              ELSE "log-unauthorized"]
      /\ UNCHANGED <<known_users, mac_history, mobile_ouis, infrastructure_ouis,
                     device_history, clock, recorded, det_recorded, calls>>

\* The monitor: one detection after another, as start_monitoring hands them on
Detect ==
  /\ Len(detections) < MaxDetect
  /\ \E node_id \in MonitorNodes, mac \in MonitorMACs,
        registered_user \in BOOLEAN, success \in BOOLEAN :
       _process_mac_detection(node_id, mac, registered_user, success)
NextMonitor == Detect
SpecMonitor == Init /\ [][NextMonitor]_vars

\* The filter: one scan after another
Filter ==
  \E detected_devices \in FilterLists :
    /\ Calls(det_recorded) + Len(detected_devices) <= MaxFilter
    /\ filter_mobile_devices(detected_devices)
NextFilter == Filter
SpecFilter == Init /\ [][NextFilter]_vars

-----------------------------------------------------------------------------
(* Properties                                                              *)

\* The spec's MacAddress: six pairs of uppercase hex digits separated by colons
IsMacAddress(mac) ==
  /\ Len(mac) = 17
  /\ \A i \in {2, 5, 8, 11, 14} : CharAt(mac, i) = ":"
  /\ \A i \in (0..16) \ {2, 5, 8, 11, 14} :
       CharAt(mac, i) \in {"0", "1", "2", "3", "4", "5", "6", "7", "8", "9",
                           "A", "B", "C", "D", "E", "F"}

\* The first three octets of a MacAddress, as the tables write them
OuiOf(mac) == SubSeq(mac, 1, 8)
\* The first octet of a MacAddress has the locally-administered bit 0x02
LocallyAdministered(mac) == CharAt(mac, 1) \in {"2", "3", "6", "7", "A", "B", "E", "F"}


C2_TablesDisjoint ==
  DOMAIN mobile_ouis \cap DOMAIN infrastructure_ouis = {}

\* C3 as stated: is_mobile_device returns (false, 0.95, label) for every MAC
\* whose OUI the infrastructure table lists, label being that table's label.
C3_InfrastructureClassified ==
  (/\ ret.op = "is_mobile_device"
   /\ IsMacAddress(ret.mac)
   /\ OuiOf(ret.mac) \in DOMAIN infrastructure_ouis)
  => ret.value = <<FALSE, 95, infrastructure_ouis[OuiOf(ret.mac)]>>

\* C4 as stated: is_mobile_device returns (true, 0.95, label) for every MAC
\* whose OUI the mobile table lists, for each label the table source lists for
\* that OUI.
C4_MobileClassified ==
  (/\ ret.op = "is_mobile_device"
   /\ IsMacAddress(ret.mac))
  => \A i \in 1..Len(mobile_ouis_literal) :
       mobile_ouis_literal[i][1] = OuiOf(ret.mac)
       => ret.value = <<TRUE, 95, mobile_ouis_literal[i][2]>>

\* C5: for a MacAddress with the locally-administered bit whose OUI is in
\* neither table, is_mobile_device returns (true, 0.8, "Mobile (Randomized
\* MAC)") whatever device_history holds; with the bit set and the OUI in a
\* table, the answer is the table's (confidence 0.95), not the randomized one.
C5_RandomizedClassified ==
  (/\ ret.op = "is_mobile_device"
   /\ IsMacAddress(ret.mac)
   /\ LocallyAdministered(ret.mac))
  => IF OuiOf(ret.mac) \in DOMAIN mobile_ouis \cup DOMAIN infrastructure_ouis
     THEN ret.value[2] = 95 /\ ret.value[3] /= "Mobile (Randomized MAC)"
     ELSE ret.value = <<TRUE, 80, "Mobile (Randomized MAC)">>

\* C5 witness: a randomized MAC in neither table, classified while it has a
\* history of several samples.
C5_Witness ==
  /\ ret.op = "is_mobile_device"
  /\ ret.mac = "A2:11:22:33:44:55"
  /\ ret.mac \in DOMAIN device_history
  /\ Len(device_history[ret.mac].signal_pattern) >= 2
  /\ ret.value = <<TRUE, 80, "Mobile (Randomized MAC)">>

\* The call track_device("AA:BB:CC:DD:EE:FF", -45, "node_001") has just
\* returned, with a user registered under that MAC.
C6_Case ==
  /\ ret.op = "track_device" /\ ~ret.raised
  /\ ret.mac = "AA:BB:CC:DD:EE:FF"
  /\ ret.signal_strength = -45 /\ ret.node_id = "node_001"
  /\ ret.mac \in UserKeys(known_users)

\* C6 (as amended): the result names the registered user, with is_randomized
\* true and confidence 0.5.
C6_RegisteredThenTracked ==
  C6_Case =>
    /\ ret.identified_user = Some(UserGet(known_users, ret.mac).name)
    /\ ret.is_randomized = TRUE
    /\ ret.confidence = 50

\* C6 witness: Glenn registered under AA:BB:CC:DD:EE:FF and tracked there.
C6_Witness ==
  /\ C6_Case
  /\ ret.identified_user = Some("Glenn")

\* C6 as stated: the result names the registered user, with is_randomized
\* false and confidence 1.0.
C6_Original ==
  C6_Case =>
    /\ ret.identified_user = Some(UserGet(known_users, ret.mac).name)
    /\ ret.is_randomized = FALSE
    /\ ret.confidence = 100

\* C7 as stated: track_device returns confidence 1.0 exactly when a user was
\* identified and the MAC is not flagged randomized, and 0.5 in every other
\* case.
C7_ConfidenceRule ==
  (ret.op = "track_device" /\ ~ret.raised)
  => /\ ret.confidence \in {50, 100}
     /\ ret.confidence = 100 <=> (ret.identified_user /= None /\ ~ret.is_randomized)

\* C8: register_user stores the entry for a MacAddress with the detector's
\* verdict as its is_randomized flag, and returns false exactly when that
\* verdict is true; DA:0E:14:12:34:56 is flagged, 00:1E:C2:11:22:33 is not.
C8_RegisterStores ==
  (ret.op = "register_user" /\ IsMacAddress(ret.mac))
  => /\ ret.mac \in UserKeys(known_users)
     /\ UserGet(known_users, ret.mac).name = ret.name
     /\ UserGet(known_users, ret.mac).is_randomized = detect_randomized_mac(ret.mac)
     /\ ret.value = ~detect_randomized_mac(ret.mac)
     /\ ret.mac = "DA:0E:14:12:34:56" => ret.value = FALSE
     /\ ret.mac = "00:1E:C2:11:22:33" => ret.value = TRUE

\* C8 witness: DA:0E:14:12:34:56 registered, stored flagged, false returned.
C8_Witness ==
  /\ ret.op = "register_user" /\ ret.mac = "DA:0E:14:12:34:56"
  /\ ret.value = FALSE
  /\ ret.mac \in UserKeys(known_users)
  /\ UserGet(known_users, ret.mac).is_randomized

\* C9: when the tracked MAC has a registry entry, the identified user is that
\* entry's name.
C9_ExactMatch ==
  (/\ ret.op = "track_device" /\ ~ret.raised
   /\ ret.mac \in UserKeys(known_users))
  => ret.identified_user = Some(UserGet(known_users, ret.mac).name)

\* C9 witness: the tracked MAC's entry is flagged is_randomized, has a history
\* of its own and is not the only entry.
C9_Witness ==
  /\ ret.op = "track_device" /\ ~ret.raised
  /\ ret.mac \in UserKeys(known_users)
  /\ UserGet(known_users, ret.mac).is_randomized
  /\ Len(known_users) >= 2
  /\ Len(mac_history[ret.mac]) >= 2
  /\ ret.identified_user = Some("Glenn")

\* The entries of known_users flagged is_randomized, and the score of entry i
\* against the fingerprint track_device has just returned
Candidates == {i \in 1..Len(known_users) : known_users[i].is_randomized}
ScoreOf(i) == _calculate_similarity_score(mac_history, ret.fingerprint, known_users[i].mac)

\* C10: when the tracked MAC has no registry entry, the identified user is the
\* name of a flagged entry whose score is the highest of the flagged entries'
\* and above 0.7 (21 thirtieths), and absent when no flagged entry scores
\* above 0.7.
C10_HeuristicMatch ==
  (/\ ret.op = "track_device" /\ ~ret.raised
   /\ ret.mac \notin UserKeys(known_users))
  => IF \E i \in Candidates : ScoreOf(i) > 21
     THEN \E i \in Candidates :
            /\ ScoreOf(i) > 21
            /\ \A j \in Candidates : ScoreOf(j) <= ScoreOf(i)
            /\ ret.identified_user = Some(known_users[i].name)
     ELSE ret.identified_user = None

\* C10 witness: an unregistered MAC tracked while a flagged entry scores above
\* zero and an unflagged entry exists; nobody is identified.
C10_Witness ==
  /\ ret.op = "track_device" /\ ~ret.raised
  /\ ret.mac \notin UserKeys(known_users)
  /\ \E i \in Candidates : ScoreOf(i) > 0
  /\ \E i \in 1..Len(known_users) : ~known_users[i].is_randomized
  /\ ret.identified_user = None

\* The hex digits of a MAC string, its separators dropped
HexText(mac) == Remove(Remove(mac, ":"), "-")
\* A malformed MAC string: not six octets of hex digits
Malformed(mac) == Len(HexText(mac)) /= 12 \/ ~AllHex(HexText(mac))

\* C11: is_mobile_device on a malformed MAC string (wrong length, or with a
\* character that is no hex digit) yields the outcome InvalidAddressFormat, which
\* differs from every classification: the string is never labelled an unknown,
\* a mobile or an infrastructure device.
C11_MalformedNotClassified ==
  (ret.op = "is_mobile_device" /\ Malformed(ret.mac))
    => ret.value[3] = "InvalidAddressFormat"


\* C12: track_device called with any malformed MAC string (empty, too short,
\* with a character that is no hex digit) returns to its caller; no exception
\* escapes.
C12_NoExceptionEscapes ==
  (ret.op = "track_device" /\ Malformed(ret.mac)) => ~ret.raised

\* C13: a malformed MAC string is rejected before any lookup or update:
\* register_user, track_device and update_device_history called with one leave
\* the registry and every per-MAC history as they were, so no malformed string
\* is ever a key of known_users, mac_history or device_history.
C13_MalformedNeverStored ==
  \A mac \in UserKeys(known_users) \cup DOMAIN mac_history \cup DOMAIN device_history :
    ~Malformed(mac)

\* The canonical spelling of a MAC string that is not malformed: uppercase hex
\* digits, colon-separated
Canonical(mac) ==
  LET t == Upper(HexText(mac))
  IN  SubSeq(t, 1, 2) \o ":" \o SubSeq(t, 3, 4) \o ":" \o SubSeq(t, 5, 6) \o ":"
        \o SubSeq(t, 7, 8) \o ":" \o SubSeq(t, 9, 10) \o ":" \o SubSeq(t, 11, 12)

\* C14: two spellings of one address (letter case, '-' or ':' as separator) are
\* the same key. A tracking call for a spelling of a registered address
\* identifies the registered name, and is_mobile_device gives a spelling the
\* classification of the canonical one.
C14_SpellingsEquivalent ==
  /\ (ret.op = "track_device" /\ ~Malformed(ret.mac))
       => \A i \in 1..Len(known_users) :
            (/\ ~Malformed(known_users[i].mac)
             /\ Canonical(known_users[i].mac) = Canonical(ret.mac))
              => (~ret.raised /\ ret.identified_user = Some(known_users[i].name))
  /\ (ret.op = "is_mobile_device" /\ ~Malformed(ret.mac))
       => ret.value = is_mobile_device(mobile_ouis, infrastructure_ouis,
                                       device_history, Canonical(ret.mac))

\* C15: the registry holds at most one entry per MAC string and the last
\* registration wins: a register_user(name, mac) call leaves the entry of mac
\* carrying that name and every other entry as it was, so registering a name
\* again under another MAC adds a second entry and keeps the first; a
\* track_device call changes no entry.
C15_OneEntryPerMAC ==
  [][/\ \A i, j \in 1..Len(known_users') :
          known_users'[i].mac = known_users'[j].mac => i = j
     /\ (clock' /= clock) => known_users' = known_users
     /\ (clock' = clock /\ ret'.op = "register_user" /\ ~detect_raises(ret'.mac))
          => /\ UserKeys(known_users') = UserKeys(known_users) \cup {ret'.mac}
             /\ UserGet(known_users', ret'.mac).name = ret'.name
             /\ \A mac \in UserKeys(known_users) \ {ret'.mac} :
                  UserGet(known_users', mac) = UserGet(known_users, mac)]_vars
\* A MAC registered again while the same name is registered under a second MAC
C15_Witness ==
  /\ Len(known_users) = 2
  /\ known_users[1].name = "Glenn"
  /\ known_users[2].name = "Glenn"
  /\ ret.op = "register_user"
  /\ ret.mac = known_users[1].mac

\* C16: create_device_fingerprint records the new sample and then reads the
\* history back: with n samples stored for the MAC after the call,
\* signal_pattern is the signal values of the last min(10, n) stored samples and
\* movement_pattern the node ids of the last min(5, n), oldest first; the last
\* element of each is the signal and the node just passed in.
C16_FingerprintReadsBack ==
  (ret.op = "track_device" /\ ~ret.raised)
    => LET stored == mac_history[ret.mac]
           n == Len(stored)
           ns == Min(10, n)
           nm == Min(5, n)
           fp == ret.fingerprint
       IN  /\ n >= 1
           /\ Len(fp.signal_pattern) = ns
           /\ \A i \in 1..ns : fp.signal_pattern[i] = stored[n - ns + i].signal
           /\ Len(fp.movement_pattern) = nm
           /\ \A i \in 1..nm : fp.movement_pattern[i] = stored[n - nm + i].node
           /\ fp.signal_pattern[ns] = ret.signal_strength
           /\ fp.movement_pattern[nm] = ret.node_id
\* A fingerprint taken when the history is full and has evicted samples
C16_Witness ==
  /\ ret.op = "track_device"
  /\ ~ret.raised
  /\ Len(recorded[ret.mac]) > 50
  /\ Len(ret.fingerprint.signal_pattern) = 10
  /\ Len(ret.fingerprint.movement_pattern) = 5

\* C17: every update_device_history call, the first observation of a MAC
\* included, recomputes the behavior score: the stored behavior_score of every
\* device is 0.5*min(stdDev/15, 1) + 0.3*0.7 + 0.2*0.6 over its stored samples,
\* and lies in [0, 1].
C17_BehaviorScoreRecomputed ==
  \A mac \in DOMAIN device_history :
    /\ device_history[mac].behavior_score
         = _calculate_behavior_score(device_history[mac].signal_pattern)
    /\ device_history[mac].behavior_score \in 0..100

\* C18: is_mobile_device on a MAC whose OUI is in neither table, whose first
\* octet lacks the locally-administered bit and which has no stored history
\* returns (false, 0.3, "Unknown Device (Need More Data)"), an ordinary result.
C18_UnknownNoHistory ==
  (/\ ret.op = "is_mobile_device"
   /\ IsMacAddress(ret.mac)
   /\ OuiOf(ret.mac) \notin DOMAIN mobile_ouis \cup DOMAIN infrastructure_ouis
   /\ ~LocallyAdministered(ret.mac)
   /\ ret.mac \notin DOMAIN device_history)
    => ret.value = <<FALSE, 30, "Unknown Device (Need More Data)">>
\* Such a MAC classified while other devices have a history
C18_Witness ==
  /\ ret.op = "is_mobile_device"
  /\ ret.mac = "00:11:22:33:44:55"
  /\ ret.mac \notin DOMAIN device_history
  /\ DOMAIN device_history /= {}
  /\ ret.value = <<FALSE, 30, "Unknown Device (Need More Data)">>

\* C19: is_mobile_device is a pure function of the tables and the history: a
\* call changes neither OUI table nor any device history, and a call that
\* directly follows a call on the same MAC returns the same triple.
C19_ClassifyIsPure ==
  [][(ret'.op = "is_mobile_device")
       => /\ mobile_ouis' = mobile_ouis
          /\ infrastructure_ouis' = infrastructure_ouis
          /\ device_history' = device_history
          /\ (ret.op = "is_mobile_device" /\ ret.mac = ret'.mac)
               => ret'.value = ret.value]_vars
\* A device in neither table and without the locally-administered bit,
\* classified from a stored history of several samples
C19_Witness ==
  /\ ret.op = "is_mobile_device"
  /\ ret.mac = "00:11:22:33:44:55"
  /\ ret.mac \in DOMAIN device_history
  /\ Len(device_history[ret.mac].signal_pattern) >= 2
  /\ ret.value[3] /= "Unknown Device (Need More Data)"

\* C20: within one MAC's history the stored samples are in non-decreasing
\* timestamp order, in every interleaving of concurrent track_device calls for
\* that MAC: no sample is stored after a sample with a later timestamp.
C20_TimestampsOrdered ==
  \A mac \in DOMAIN mac_history :
    \A i, j \in 1..Len(mac_history[mac]) :
      i < j => mac_history[mac][i].timestamp <= mac_history[mac][j].timestamp

\* C21: concurrent track_device calls behave as if serialized: once the calls
\* for a MAC have returned, its history holds what some sequential order of
\* them leaves, which is every sample they recorded, each once (fewer than 50
\* were recorded, so none is evicted).
C21_Serializable ==
  (\A t \in Threads : calls[t].pc = "idle")
    => \A mac \in DOMAIN recorded :
         Len(recorded[mac]) <= 50
           => /\ mac \in DOMAIN mac_history
              /\ Len(mac_history[mac]) = Len(recorded[mac])
              /\ {mac_history[mac][i] : i \in 1..Len(mac_history[mac])}
                   = {recorded[mac][i] : i \in 1..Len(recorded[mac])}

\* The signal values of the last 10 samples stored for a MAC
StoredSignals(mac) ==
  [i \in 1..Len(LastN(mac_history[mac], 10)) |-> LastN(mac_history[mac], 10)[i].signal]

\* C22: _calculate_similarity_score evaluates the signal-pattern term (weight
\* 0.4) whenever the candidate's MAC has 5 or more stored samples: a candidate
\* with 5 or more stored samples whose signal similarity to the fingerprint
\* exceeds 0.8 is credited 0.4, so its score is (0.4 + v + m) / 3 with v and m
\* each 0 or 0.3, which is 4, 7 or 10 thirtieths. (Stated for the candidates
\* that find_potential_user_match scores.)
C22_SignalTermFromFive ==
  (/\ ret.op = "track_device" /\ ~ret.raised
   /\ ret.mac \notin UserKeys(known_users))
    => \A i \in Candidates :
         (/\ known_users[i].mac \in DOMAIN mac_history
          /\ Len(mac_history[known_users[i].mac]) >= 5
          /\ FracGt(_signal_pattern_similarity(ret.fingerprint.signal_pattern,
                                              StoredSignals(known_users[i].mac)), 8))
           => ScoreOf(i) \in {4, 7, 10}

\* The first octet of a MacAddress, as two hex digits
FirstOctet(mac) == SubSeq(mac, 1, 2)

\* C23: detect_randomized_mac flags a well-formed MAC as randomized if and only
\* if at least one of four heuristics holds: (a) the locally-administered bit
\* of the first octet is set, (b) the first octet is 02, 06, 0A or 0E, (c) the
\* first octet is DA, DE, D6 or D2, (d) the OUI is absent from the hard-coded
\* table of known manufacturer OUIs.
C23_RandomizedIff ==
  (ret.op = "detect_randomized_mac" /\ IsMacAddress(ret.mac))
    => (ret.value
          <=> \/ LocallyAdministered(ret.mac)
              \/ FirstOctet(ret.mac) \in {"02", "06", "0A", "0E"}
              \/ FirstOctet(ret.mac) \in {"DA", "DE", "D6", "D2"}
              \/ Remove(OuiOf(ret.mac), ":") \notin known_ouis)
\* A MAC flagged by heuristic (d) alone
C23_Witness ==
  /\ ret.op = "detect_randomized_mac"
  /\ ret.mac = "00:11:22:33:44:55"
  /\ ~LocallyAdministered(ret.mac)
  /\ ret.value

\* C24: _signal_pattern_similarity is symmetric: for patterns p1, p2 of any
\* lengths, the empty one included, similarity(p1, p2) = similarity(p2, p1).
C24_SignalSimilaritySymmetric ==
  (ret.op = "_signal_pattern_similarity")
    => LET swapped == _signal_pattern_similarity(ret.pattern2, ret.pattern1)
       IN  ret.value[1] * swapped[2] = swapped[1] * ret.value[2]
\* Two patterns of different lengths that are neither equal nor unrelated
C24_Witness ==
  /\ ret.op = "_signal_pattern_similarity"
  /\ Len(ret.pattern1) >= 3
  /\ Len(ret.pattern2) > Len(ret.pattern1)
  /\ ret.value[1] > 0
  /\ ret.value[1] < ret.value[2]

\* C25: when the fingerprint's signal pattern and a candidate's stored signal
\* pattern overlap in fewer than 3 elements (the smaller of the two lengths is
\* below 3), the signal similarity is 0 and the signal term adds nothing to the
\* candidate's score (the score is not 4, 7 or 10 thirtieths), whatever the
\* signal values are.
C25_ShortOverlapScoresNothing ==
  /\ (ret.op = "_signal_pattern_similarity"
        /\ Min(Len(ret.pattern1), Len(ret.pattern2)) < 3)
       => ret.value[1] = 0
  /\ (ret.op = "_calculate_similarity_score"
        /\ Min(Len(ret.pattern1), Min(10, Len(ret.pattern2))) < 3)
       => ret.value \notin {4, 7, 10}
\* A candidate with more than 5 stored samples scored against a fingerprint of
\* two signals that equal the candidate's last two
C25_Witness ==
  /\ ret.op = "_calculate_similarity_score"
  /\ Len(ret.pattern2) > 5
  /\ Len(ret.pattern1) = 2
  /\ ret.pattern1 = LastN(ret.pattern2, 2)
  /\ ret.value \notin {4, 7, 10}

\* The number of positions, counted from the most recent element, at which two
\* patterns agree
RECURSIVE MatchesFromEnd(_, _)
MatchesFromEnd(p1, p2) ==
  IF Len(p1) = 0 \/ Len(p2) = 0 THEN 0
  ELSE (IF p1[Len(p1)] = p2[Len(p2)] THEN 1 ELSE 0)
         + MatchesFromEnd(SubSeq(p1, 1, Len(p1) - 1), SubSeq(p2, 1, Len(p2) - 1))

\* C26: _movement_pattern_similarity aligns the two node-id patterns on their
\* most recent elements and returns the number of agreeing positions divided by
\* the larger length; the result is in [0, 1], is 1 only for identical
\* patterns, and is 0 when either pattern is empty.
C26_MovementSimilarity ==
  (ret.op = "_movement_pattern_similarity")
    => /\ ret.value[2] > 0
       /\ 0 <= ret.value[1] /\ ret.value[1] <= ret.value[2]
       /\ (Len(ret.nodes1) = 0 \/ Len(ret.nodes2) = 0) => ret.value[1] = 0
       /\ (Len(ret.nodes1) > 0 /\ Len(ret.nodes2) > 0)
            => ret.value[1] * Max(Len(ret.nodes1), Len(ret.nodes2))
                 = MatchesFromEnd(ret.nodes1, ret.nodes2) * ret.value[2]
       /\ (ret.value[1] = ret.value[2]) => ret.nodes1 = ret.nodes2
\* Patterns of different lengths that agree at their ends but not at their
\* starts
C26_Witness ==
  /\ ret.op = "_movement_pattern_similarity"
  /\ Len(ret.nodes1) = 2
  /\ Len(ret.nodes2) = 4
  /\ ret.nodes1 = LastN(ret.nodes2, 2)
  /\ ret.nodes1 /= SubSeq(ret.nodes2, 1, 2)
  /\ ret.value = <<2, 4>>

\* C27: track_device returns an identified user only if the tracked MAC string
\* is itself a key of the registry: the heuristic path never yields a user,
\* because a candidate's score is at most (0.3 + 0.4 + 0.3) / 3, which is 10
\* thirtieths and never above the threshold 0.7.
C27_HeuristicNeverIdentifies ==
  (ret.op = "track_device" /\ ~ret.raised)
    => /\ \A i \in Candidates : ScoreOf(i) <= 10
       /\ ret.identified_user /= None => ret.mac \in UserKeys(known_users)
\* An unregistered device tracked while a candidate is credited all three terms
C27_Witness ==
  /\ ret.op = "track_device" /\ ~ret.raised
  /\ ret.mac \notin UserKeys(known_users)
  /\ \E i \in Candidates : ScoreOf(i) = 10
  /\ ret.identified_user = None

\* C28: track_device(mac, ...) on a well-formed MAC appends exactly one sample
\* to mac's history (then cuts it to the cap) and leaves every other MAC's
\* history and the whole registry unchanged; register_user changes only the
\* registry entry of its own MAC and leaves every history unchanged. (A step
\* that advances the clock is a track_device call, any other a register_user
\* call.)
C28_Frame ==
  [][/\ (clock' /= clock)
          => LET mac == ret'.mac
                 old == IF mac \in DOMAIN mac_history THEN mac_history[mac] ELSE <<>>
                 sample == [signal |-> ret'.signal_strength, node |-> ret'.node_id,
                            timestamp |-> clock]
             IN  /\ ret'.op = "track_device" /\ ~ret'.raised
                 /\ DOMAIN mac_history' = DOMAIN mac_history \cup {mac}
                 /\ mac_history'[mac] = LastN(Append(old, sample), 50)
                 /\ \A m \in DOMAIN mac_history \ {mac} :
                      mac_history'[m] = mac_history[m]
                 /\ known_users' = known_users
     /\ (clock' = clock)
          => /\ ret'.op = "register_user"
             /\ mac_history' = mac_history
             /\ UserKeys(known_users') \subseteq UserKeys(known_users) \cup {ret'.mac}
             /\ \A m \in UserKeys(known_users) \ {ret'.mac} :
                  /\ m \in UserKeys(known_users')
                  /\ UserGet(known_users', m) = UserGet(known_users, m)]_vars
\* A device tracked while another device has a history and two users are
\* registered
C28_Witness ==
  /\ ret.op = "track_device" /\ ~ret.raised
  /\ Cardinality(DOMAIN mac_history) = 2
  /\ Len(known_users) = 2

\* The node of the last report of mac that the backend accepted among the
\* first n detections; None when there is none
LastAccepted(mac, n) ==
  LET accepted == {k \in 1..n : detections[k].mac = mac /\ detections[k].success}
  IN  IF accepted = {} THEN None
      ELSE Some(detections[CHOOSE k \in accepted : \A l \in accepted : l <= k].node)

\* C29: in RajantMacMonitor, last_seen_macs[mac] is written only after the
\* backend accepted a report for that MAC (it is the node of the last accepted
\* report), and a detection at the node stored in last_seen_macs[mac] sends
\* nothing while every other detection sends a report; therefore no two
\* consecutive accepted reports of one MAC name the same node, and a detection
\* whose report failed is attempted again at the next detection at that node.
C29_LastSeenAfterAccept ==
  /\ \A mac \in MonitorMACs :
       IF mac \in DOMAIN last_seen_macs
       THEN LastAccepted(mac, Len(detections)) = Some(last_seen_macs[mac])
       ELSE LastAccepted(mac, Len(detections)) = None
  /\ \A j \in 1..Len(detections) :
       /\ detections[j].sent
            <=> LastAccepted(detections[j].mac, j - 1) /= Some(detections[j].node)
       /\ detections[j].success => detections[j].sent
       /\ detections[j].success
            => LastAccepted(detections[j].mac, j - 1) /= Some(detections[j].node)
  /\ \A i, j \in 1..Len(detections) :
       (/\ i < j
        /\ detections[i].mac = detections[j].mac
        /\ detections[i].node = detections[j].node
        /\ detections[i].sent /\ ~detections[i].success
        /\ \A k \in (i + 1)..(j - 1) :
             ~(detections[k].mac = detections[i].mac
               /\ detections[k].node = detections[i].node))
         => detections[j].sent
\* A report that failed, was sent again at the next detection at that node and
\* accepted, after which a detection at that node sends nothing
C29_Witness ==
  /\ Len(detections) >= 3
  /\ \A k \in 1..3 : detections[k].mac = detections[1].mac
                        /\ detections[k].node = detections[1].node
  /\ detections[1].sent /\ ~detections[1].success
  /\ detections[2].sent /\ detections[2].success
  /\ ~detections[3].sent

\* The positions of the devices of the last scan that were classified mobile,
\* in input order
MobilePositions ==
  SelectSeq([i \in 1..Len(ret.detected_devices) |-> i],
            LAMBDA i : ret.classified[i][1])

\* The number of times the device at position i of the last scan had been
\* passed to update_device_history when it was classified
ObservationsAt(i) ==
  Len(det_recorded[ret.detected_devices[i].mac])
    - Cardinality({j \in (i + 1)..Len(ret.detected_devices) :
                     ret.detected_devices[j].mac = ret.detected_devices[i].mac})

\* C30: filter_mobile_devices updates each input device's history before it
\* classifies it (so every input MAC has a history, and a device the scan does
\* not name again was classified on the history the call leaves), and returns,
\* in input order, exactly the input devices classified mobile, each with the
\* fields is_mobile, confidence, device_type, vendor and filter_reason; a MAC
\* whose OUI is in neither table and whose first octet lacks the
\* locally-administered bit is classified (False, 0, "Unknown Static Device")
\* at its first observation and so is not in the output, and no device is
\* classified "Unknown Device (Need More Data)".
C30_FilterMobileDevices ==
  ret.op = "filter_mobile_devices" =>
    LET devices == ret.detected_devices
        n == Len(devices)
    IN  /\ Len(ret.classified) = n
        /\ \A i \in 1..n :
             /\ devices[i].mac \in DOMAIN device_history
             /\ ret.classified[i][3] # "Unknown Device (Need More Data)"
             /\ (\A j \in (i + 1)..n : devices[j].mac # devices[i].mac) =>
                  ret.classified[i] =
                    is_mobile_device(mobile_ouis, infrastructure_ouis,
                                     device_history, devices[i].mac)
             /\ ( /\ IsMacAddress(devices[i].mac)
                  /\ OuiOf(devices[i].mac) \notin DOMAIN mobile_ouis
                  /\ OuiOf(devices[i].mac) \notin DOMAIN infrastructure_ouis
                  /\ ~LocallyAdministered(devices[i].mac)
                  /\ ObservationsAt(i) = 1 ) =>
                  /\ ret.classified[i] = <<FALSE, 0, "Unknown Static Device">>
                  /\ \A k \in 1..Len(MobilePositions) : MobilePositions[k] # i
        /\ Len(ret.value) = Len(MobilePositions)
        /\ \A k \in 1..Len(ret.value) :
             LET i == MobilePositions[k]
             IN  /\ ret.value[k].mac = devices[i].mac
                 /\ ret.value[k].signal = devices[i].signal
                 /\ ret.value[k].node = devices[i].node
                 /\ ret.value[k].is_mobile
                 /\ ret.value[k].confidence = ret.classified[i][2]
                 /\ ret.value[k].device_type = ret.classified[i][3]
                 /\ ret.value[k].filter_reason = "Mobile Device Detected"

\* A scan of two devices whose first is a MAC of neither table without the
\* locally-administered bit at its first observation, filtered out, and whose
\* second is returned
C30_Witness ==
  /\ ret.op = "filter_mobile_devices"
  /\ Len(ret.detected_devices) = 2
  /\ ret.detected_devices[1].mac = "00:11:22:33:44:55"
  /\ ObservationsAt(1) = 1
  /\ Len(ret.value) = 1
  /\ ret.value[1].mac = ret.detected_devices[2].mac

====
